---------------------------- MODULE Spec2Model ----------------------------
(***************************************************************************)
(* GreenPulse-AI streaming pipeline (src/greenpulse-ai).                   *)
(*                                                                         *)
(* The pipeline is a reactive dataflow: the three input tables (gps, fuel, *)
(* shipments) only grow, and every other table is a view that the engine   *)
(* keeps equal to a function of the input tables.  The state is therefore  *)
(* the input tables, the state of the arrival-ordered reducers             *)
(* (pw.reducers.latest) and the inputs/outputs of directly called UDFs.    *)
(*                                                                         *)
(* Numbers.  Python floats are modelled as exact rationals <<n, d>> in     *)
(* lowest terms with d > 0.  A standard deviation s is carried as s*s      *)
(* (max(sqrt(x), 0.001) = sqrt(max(x, 10^-6))), a z-score z >= 0 as z*z.   *)
(* Timestamps are <<minute, second>> of one fixed hour; latitude and       *)
(* longitude are in units of 0.0001 degree.                                *)
(***************************************************************************)
EXTENDS Integers, Sequences, FiniteSets, TLC

VARIABLES
    gps,            \* bag of GPS rows            (ingestion/gps_stream.py)
    fuel,           \* bag of fuel rows           (ingestion/fuel_stream.py)
    shipments,      \* bag of shipment rows       (ingestion/shipment_stream.py)
    shipLatest,     \* per vehicle: state of reducers.latest over shipments
    zLatest,        \* per (vehicle, sliding window): state of reducers.latest
    lastRunState,   \* history: per vehicle_states row, current_state before its last recomputation
    stateChanges,   \* history: per vehicle, number of recomputations that changed a row's state
    call,           \* the call under test and what it returned (UDFs, API handlers)
    _crisis_state   \* api/server.py: the crisis simulation's switch

vars == <<gps, fuel, shipments, shipLatest, zLatest, lastRunState, stateChanges, call, _crisis_state>>

-----------------------------------------------------------------------------
(* Exact arithmetic standing for Python float arithmetic.                  *)

NULL == "None"

Abs(n) == IF n < 0 THEN -n ELSE n

RECURSIVE Gcd(_, _)
Gcd(a, b) == IF b = 0 THEN a ELSE Gcd(b, a % b)

RNorm(n, d) ==
    LET s == IF d < 0 THEN -1 ELSE 1
        g == Gcd(Abs(n), Abs(d))
    IN  <<(s * n) \div g, (s * d) \div g>>

R(n) == <<n, 1>>

RNeg(a) == <<-a[1], a[2]>>

RAdd(a, b) ==
    LET g == Gcd(a[2], b[2])
    IN  RNorm(a[1] * (b[2] \div g) + b[1] * (a[2] \div g), (a[2] \div g) * b[2])

RSub(a, b) == RAdd(a, RNeg(b))

RMul(a, b) ==
    LET g1 == Gcd(Abs(a[1]), b[2])
        g2 == Gcd(Abs(b[1]), a[2])
    IN  RNorm((a[1] \div g1) * (b[1] \div g2), (a[2] \div g2) * (b[2] \div g1))

RDiv(a, b) == RMul(a, IF b[1] < 0 THEN <<-b[2], -b[1]>> ELSE <<b[2], b[1]>>)

\* a/b < c/d for a, c >= 0 and b, d > 0, by continued-fraction expansion
\* (no product is formed, so no 32-bit overflow).
RECURSIVE PosLt(_, _, _, _)
PosLt(a, b, c, d) ==
    LET qa == a \div b
        qc == c \div d
        ra == a % b
        rc == c % d
    IN  IF qa # qc THEN qa < qc
        ELSE IF rc = 0 THEN FALSE
        ELSE IF ra = 0 THEN TRUE
        ELSE PosLt(d, rc, b, ra)

RLt(a, b) ==
    IF a[1] < 0
    THEN IF b[1] < 0 THEN PosLt(-b[1], b[2], -a[1], a[2]) ELSE TRUE
    ELSE IF b[1] < 0 THEN FALSE ELSE PosLt(a[1], a[2], b[1], b[2])

RGt(a, b) == RLt(b, a)
RLe(a, b) == ~RLt(b, a)
RGe(a, b) == ~RLt(a, b)
RMax(a, b) == IF RLt(a, b) THEN b ELSE a
RMin(a, b) == IF RLt(b, a) THEN b ELSE a
RAbs(a) == <<Abs(a[1]), a[2]>>

\* f"{x:.1f}": x rounded to tenths, half to even; the result is in tenths.
Fmt1(a) ==
    LET n == 10 * a[1]
        q == n \div a[2]
        r == n % a[2]
    IN  IF 2 * r < a[2] THEN q
        ELSE IF 2 * r > a[2] THEN q + 1
        ELSE IF q % 2 = 0 THEN q ELSE q + 1

RECURSIVE SumFn(_)
SumFn(f) ==
    IF DOMAIN f = {} THEN 0
    ELSE LET e == CHOOSE e \in DOMAIN f : TRUE
         IN  f[e] + SumFn([k \in DOMAIN f \ {e} |-> f[k]])

RECURSIVE RSumFn(_)
RSumFn(f) ==
    IF DOMAIN f = {} THEN R(0)
    ELSE LET e == CHOOSE e \in DOMAIN f : TRUE
         IN  RAdd(f[e], RSumFn([k \in DOMAIN f \ {e} |-> f[k]]))

Max(S) == CHOOSE m \in S : \A n \in S : n <= m
Min(S) == CHOOSE m \in S : \A n \in S : m <= n

-----------------------------------------------------------------------------
(* Tables are bags: a function from the distinct rows present to their     *)
(* number of copies (Pathway rows have their own ids; equal rows coexist). *)

EmptyBag == <<>>
\* f itself (f @@ g is f extended by g), held as an explicit table of values
Table(f) == f @@ <<>>
BagAdd(B, r) ==
    Table([x \in DOMAIN B \cup {r} |->
        (IF x \in DOMAIN B THEN B[x] ELSE 0) + (IF x = r THEN 1 ELSE 0)])
BagSize(B) == SumFn(B)
Copies(B, r) == IF r \in DOMAIN B THEN B[r] ELSE 0
\* select / with_columns: F is a function on the rows of B
BagMap(B, F) ==
    LET M == Table(F)
    IN  Table([r \in {M[x] : x \in DOMAIN B} |->
            SumFn([x \in {y \in DOMAIN B : M[y] = r} |-> B[x]])])
\* filter
BagFilter(B, keep) == Table([r \in {x \in DOMAIN B : keep[x]} |-> B[r]])
\* concat
BagUnion(A, B) == Table([r \in DOMAIN A \cup DOMAIN B |-> Copies(A, r) + Copies(B, r)])
BagLe(A, B) == \A r \in DOMAIN A : Copies(A, r) <= Copies(B, r)

-----------------------------------------------------------------------------
(* Ingestion: the CSV rows and the parsed_time column.                     *)

\* strptime("%Y-%m-%dT%H:%M:%S") on a timestamp of the modelled hour:
\* seconds since the start of the hour (an hour is a multiple of every
\* window size, so windows aligned to the epoch are aligned to the hour).
Strptime(ts) == ts[1] * 60 + ts[2]

GPSSchema(v, lat, lon, speed, ts) ==
    [vehicle_id |-> v, latitude |-> lat, longitude |-> lon, speed |-> speed, timestamp |-> ts]

FuelSchema(v, liters, km, ftype, ts) ==
    [vehicle_id |-> v, fuel_liters |-> liters, distance_km |-> km, fuel_type |-> ftype,
     timestamp |-> ts]

ShipmentSchema(sid, v, status, origin, destination, ts) ==
    [shipment_id |-> sid, vehicle_id |-> v, status |-> status, origin |-> origin,
     destination |-> destination, timestamp |-> ts]

create_gps_stream(csv) ==
    BagMap(csv, [r \in DOMAIN csv |->
        [vehicle_id |-> r.vehicle_id, latitude |-> r.latitude, longitude |-> r.longitude,
         speed |-> r.speed, timestamp |-> r.timestamp, parsed_time |-> Strptime(r.timestamp)]])

create_fuel_stream(csv) ==
    BagMap(csv, [r \in DOMAIN csv |->
        [vehicle_id |-> r.vehicle_id, fuel_liters |-> r.fuel_liters,
         distance_km |-> r.distance_km, fuel_type |-> r.fuel_type,
         timestamp |-> r.timestamp, parsed_time |-> Strptime(r.timestamp)]])

\* one shipment row with the two added columns
ShipmentRow(r) ==
    [shipment_id |-> r.shipment_id, vehicle_id |-> r.vehicle_id, status |-> r.status,
     origin |-> r.origin, destination |-> r.destination,
     timestamp |-> r.timestamp, parsed_time |-> Strptime(r.timestamp),
     is_delayed |-> IF r.status = "delayed" THEN "True" ELSE "False"]

create_shipment_stream(csv) == BagMap(csv, [r \in DOMAIN csv |-> ShipmentRow(r)])

-----------------------------------------------------------------------------
(* streaming/joins.py                                                      *)

JoinToleranceSec == 30

\* a join condition with the bounds left out
IntervalMatchOpen(g, f) ==
    /\ g.vehicle_id = f.vehicle_id
    /\ g.parsed_time - JoinToleranceSec < f.parsed_time
    /\ f.parsed_time < g.parsed_time + JoinToleranceSec

\* the interval-join condition of one GPS row and one fuel row
IntervalMatch(g, f) ==
    /\ g.vehicle_id = f.vehicle_id
    /\ g.parsed_time - JoinToleranceSec <= f.parsed_time
    /\ f.parsed_time <= g.parsed_time + JoinToleranceSec

\* the selected columns of one joined pair
JoinedRow(g, f) ==
    [vehicle_id |-> g.vehicle_id, latitude |-> g.latitude, longitude |-> g.longitude,
     speed |-> g.speed, fuel_liters |-> f.fuel_liters, distance_km |-> f.distance_km,
     fuel_type |-> f.fuel_type, timestamp |-> g.parsed_time]

\* interval_join(...).select(...): one row per matching (GPS row, fuel row) pair
join_gps_fuel(G, F) ==
    LET pairs == {p \in (DOMAIN G) \X (DOMAIN F) : IntervalMatch(p[1], p[2])}
        P == [p \in pairs |-> G[p[1]] * F[p[2]]]
    IN  BagMap(P, [p \in pairs |-> JoinedRow(p[1], p[2])])

EnrichedRow(t, L) ==
    LET has == t.vehicle_id \in DOMAIN L
    IN  [vehicle_id |-> t.vehicle_id, latitude |-> t.latitude, longitude |-> t.longitude,
         speed |-> t.speed, fuel_liters |-> t.fuel_liters, distance_km |-> t.distance_km,
         fuel_type |-> t.fuel_type, timestamp |-> t.timestamp,
         shipment_id |-> IF has THEN L[t.vehicle_id].shipment_id ELSE NULL,
         shipment_status |-> IF has THEN L[t.vehicle_id].status ELSE NULL,
         is_delayed |-> IF has THEN L[t.vehicle_id].is_delayed ELSE NULL]

\* an inner join with latest_shipments
join_all_streams_inner(G, F, L) ==
    LET telemetry == join_gps_fuel(G, F)
        kept == BagFilter(telemetry, [t \in DOMAIN telemetry |-> t.vehicle_id \in DOMAIN L])
    IN  BagMap(kept, [t \in DOMAIN kept |-> EnrichedRow(t, L)])

join_all_streams(G, F, L) ==
    LET telemetry == join_gps_fuel(G, F)
    IN  BagMap(telemetry, [t \in DOMAIN telemetry |-> EnrichedRow(t, L)])

-----------------------------------------------------------------------------
(* config/__init__.py, features/carbon.py, features/efficiency.py          *)

diesel_emission_factor == <<67, 25>>        \* 2.68
gasoline_emission_factor == <<231, 100>>    \* 2.31
default_emission_factor == <<67, 25>>       \* 2.68
window_duration_sec == 300
SlidingHopSec == 60
max_speed_kmh == 120
min_fuel_efficiency_km_per_l == 3
zscore_threshold_two == <<2, 1>>            \* a threshold of 2.0
zscore_threshold == <<5, 2>>                \* 2.5
route_bounds_km == 5

CarbonOf(t) ==
    IF t.fuel_type = "diesel" THEN RMul(R(t.fuel_liters), diesel_emission_factor)
    ELSE IF t.fuel_type = "gasoline" THEN RMul(R(t.fuel_liters), gasoline_emission_factor)
    ELSE RMul(R(t.fuel_liters), default_emission_factor)

\* a guard that lets negative litres through
EfficiencyOfNonZero(t) ==
    IF t.fuel_liters # 0 THEN RNorm(t.distance_km, t.fuel_liters) ELSE R(0)

EfficiencyOf(t) ==
    IF t.fuel_liters > 0 THEN RNorm(t.distance_km, t.fuel_liters) ELSE R(0)

FeatureRow(t) ==
    [vehicle_id |-> t.vehicle_id, latitude |-> t.latitude, longitude |-> t.longitude,
     speed |-> t.speed, fuel_liters |-> t.fuel_liters, distance_km |-> t.distance_km,
     fuel_type |-> t.fuel_type, timestamp |-> t.timestamp,
     shipment_id |-> t.shipment_id, shipment_status |-> t.shipment_status,
     is_delayed |-> t.is_delayed,
     carbon_kg |-> CarbonOf(t), fuel_efficiency |-> EfficiencyOf(t)]

\* compute_fuel_efficiency(compute_carbon_emissions(T))
compute_features(T) == BagMap(T, [t \in DOMAIN T |-> FeatureRow(t)])

\* main.py: the telemetry table after the joins and the two feature columns
\* L is latest_shipments, the state of shipments.groupby(vehicle_id).reduce(latest(...))
TelemetryOf(G, F, L) ==
    compute_features(join_all_streams(create_gps_stream(G), create_fuel_stream(F), L))

Telemetry == TelemetryOf(gps, fuel, shipLatest)

-----------------------------------------------------------------------------
(* streaming/windows.py                                                    *)

\* windows of one minute
TumblingStartMinute(ts) == (ts \div 60) * 60

TumblingStart(ts) == (ts \div window_duration_sec) * window_duration_sec

\* sum over the rows of a bag of copies * value
WSum(T, rows, val) == SumFn([r \in rows |-> T[r] * val[r]])

WindowRow(T, v, ws) ==
    LET rows == {r \in DOMAIN T : r.vehicle_id = v /\ TumblingStart(r.timestamp) = ws}
        n == WSum(T, rows, [r \in rows |-> 1])
        total_fuel == WSum(T, rows, [r \in rows |-> r.fuel_liters])
        total_distance == WSum(T, rows, [r \in rows |-> r.distance_km])
        max_speed == Max({r.speed : r \in rows})
        min_speed == Min({r.speed : r \in rows})
    IN  [vehicle_id |-> v, window_start |-> ws, window_end |-> ws + window_duration_sec,
         avg_speed |-> RNorm(WSum(T, rows, [r \in rows |-> r.speed]), n),
         max_speed |-> max_speed, min_speed |-> min_speed,
         total_fuel |-> total_fuel, total_distance |-> total_distance,
         data_points |-> n,
         carbon_kg |-> RMul(R(total_fuel), default_emission_factor),
         fuel_efficiency |-> IF total_fuel > 0 THEN RNorm(total_distance, total_fuel) ELSE R(0),
         speed_variance |-> max_speed - min_speed]

\* the windowed table, keyed by <<vehicle_id, window_start>>
compute_rolling_windows(T) ==
    LET keys == {<<r.vehicle_id, TumblingStart(r.timestamp)>> : r \in DOMAIN T}
    IN  Table([k \in keys |-> WindowRow(T, k[1], k[2])])

Windowed == compute_rolling_windows(Telemetry)

-----------------------------------------------------------------------------
(* anomalies/threshold.py                                                  *)

\* a speed test that includes the limit
is_speed_anomaly_inclusive(t) == t.speed >= max_speed_kmh

is_speed_anomaly(t) == t.speed > max_speed_kmh

is_efficiency_anomaly(t) ==
    IF RGt(t.fuel_efficiency, R(0))
    THEN RLt(t.fuel_efficiency, R(min_fuel_efficiency_km_per_l))
    ELSE FALSE

SpeedCriticalKmh == 140

ThresholdAlertRow(t) ==
    [vehicle_id |-> t.vehicle_id,
     anomaly_type |-> IF is_speed_anomaly(t) THEN "speed_threshold" ELSE "efficiency_threshold",
     severity |-> IF is_speed_anomaly(t) /\ t.speed > SpeedCriticalKmh THEN "critical"
                  ELSE IF is_speed_anomaly(t) THEN "high" ELSE "medium",
     message |-> IF is_speed_anomaly(t)
                 THEN <<"Speed threshold exceeded", t.speed>>
                 ELSE <<"Fuel efficiency below threshold", Fmt1(t.fuel_efficiency)>>,
     speed |-> t.speed, fuel_efficiency |-> t.fuel_efficiency, timestamp |-> t.timestamp]

\* a detector with one alert per rule that fires
detect_threshold_anomalies_per_rule(T) ==
    LET S == BagFilter(T, [t \in DOMAIN T |-> is_speed_anomaly(t)])
        E == BagFilter(T, [t \in DOMAIN T |-> is_efficiency_anomaly(t)])
    IN  BagUnion(BagMap(S, [t \in DOMAIN S |-> ThresholdAlertRow(t)]),
                 BagMap(E, [t \in DOMAIN E |->
                     [vehicle_id |-> t.vehicle_id, anomaly_type |-> "efficiency_threshold",
                      severity |-> "medium",
                      message |-> <<"Fuel efficiency below threshold", Fmt1(t.fuel_efficiency)>>,
                      speed |-> t.speed, fuel_efficiency |-> t.fuel_efficiency,
                      timestamp |-> t.timestamp]]))

detect_threshold_anomalies(T) ==
    LET A == BagFilter(T, [t \in DOMAIN T |-> is_speed_anomaly(t) \/ is_efficiency_anomaly(t)])
    IN  BagMap(A, [t \in DOMAIN A |-> ThresholdAlertRow(t)])

-----------------------------------------------------------------------------
(* anomalies/route_deviation.py                                            *)

DefaultRoute == <<407128, -740060>>

EXPECTED_ROUTES ==
    [v \in {"V-101", "V-102", "V-103", "V-104", "V-105", "V-106"} |->
        CASE v = "V-101" -> <<407128, -740060>>
          [] v = "V-102" -> <<423601, -710589>>
          [] v = "V-103" -> <<399526, -751652>>
          [] v = "V-104" -> <<407357, -741724>>
          [] v = "V-105" -> <<417658, -726734>>
          [] v = "V-106" -> <<392904, -766122>>]

\* Great-circle distance in km.  On one meridian (lon1 = lon2) the haversine
\* formula reduces to R * |lat2 - lat1| (in radians): 6371 * pi / 180 km per
\* degree = 0.0111195 km per 0.0001 degree.  Only this case is modelled; the
\* modelled GPS rows lie on the meridian of their reference point.
KmPerUnit == <<22239, 2000000>>
haversine_km(lat1, lon1, lat2, lon2) ==
    CASE lon1 = lon2 -> RMul(R(Abs(lat2 - lat1)), KmPerUnit)

\* a lookup without a default: an unknown vehicle is at distance 0
_compute_deviation_known_only(vehicle_id, lat, lon) ==
    IF vehicle_id \in DOMAIN EXPECTED_ROUTES
    THEN haversine_km(lat, lon, EXPECTED_ROUTES[vehicle_id][1], EXPECTED_ROUTES[vehicle_id][2])
    ELSE R(0)

_compute_deviation(vehicle_id, lat, lon) ==
    LET expected == IF vehicle_id \in DOMAIN EXPECTED_ROUTES
                    THEN EXPECTED_ROUTES[vehicle_id] ELSE DefaultRoute
    IN  haversine_km(lat, lon, expected[1], expected[2])

\* an alert row with the two upper severity limits exchanged
RouteAlertRowLimitsExchanged(t) ==
    LET d == _compute_deviation(t.vehicle_id, t.latitude, t.longitude)
    IN  [vehicle_id |-> t.vehicle_id, anomaly_type |-> "route_deviation",
         severity |-> IF RGt(d, R(route_bounds_km * 2)) THEN "critical"
                      ELSE IF RGt(d, R(route_bounds_km * 3)) THEN "high" ELSE "medium",
         message |-> <<"Route deviation", Fmt1(d)>>,
         deviation_km |-> d, latitude |-> t.latitude, longitude |-> t.longitude,
         timestamp |-> t.timestamp]

RouteAlertRow(t) ==
    LET d == _compute_deviation(t.vehicle_id, t.latitude, t.longitude)
    IN  [vehicle_id |-> t.vehicle_id, anomaly_type |-> "route_deviation",
         severity |-> IF RGt(d, R(route_bounds_km * 3)) THEN "critical"
                      ELSE IF RGt(d, R(route_bounds_km * 2)) THEN "high" ELSE "medium",
         message |-> <<"Route deviation", Fmt1(d)>>,
         deviation_km |-> d, latitude |-> t.latitude, longitude |-> t.longitude,
         timestamp |-> t.timestamp]

detect_route_deviations(T) ==
    LET D == BagFilter(T, [t \in DOMAIN T |->
                 RGt(_compute_deviation(t.vehicle_id, t.latitude, t.longitude),
                     R(route_bounds_km))])
    IN  BagMap(D, [t \in DOMAIN D |-> RouteAlertRow(t)])

-----------------------------------------------------------------------------
(* anomalies/zscore.py                                                     *)

\* the starts of the sliding windows (duration 300 s, hop 60 s) that hold ts
SlidingStarts(ts) ==
    {(ts \div SlidingHopSec - k) * SlidingHopSec :
        k \in 0 .. (window_duration_sec \div SlidingHopSec - 1)}

SlidingKeys(T) ==
    UNION {{<<r.vehicle_id, ws>> : ws \in SlidingStarts(r.timestamp)} : r \in DOMAIN T}

SlidingRows(T, k) ==
    {r \in DOMAIN T : r.vehicle_id = k[1] /\ k[2] <= r.timestamp
                      /\ r.timestamp < k[2] + window_duration_sec}

StdFloorSq == <<1, 1000000>>         \* 0.001 * 0.001

\* lambda avg_sq, avg: max(math.sqrt(max(avg_sq - avg * avg, 0)), 0.001), squared
StdSq(avg_sq, avg) == RMax(RMax(RSub(avg_sq, RMul(avg, avg)), R(0)), StdFloorSq)

\* lambda val, mean, std: abs(val - mean) / std, squared
ZScoreSq(val, mean, std_sq) ==
    LET d == RAbs(RSub(val, mean)) IN RDiv(RMul(d, d), std_sq)

\* the reducers and the two with_columns(...) over the rows of one sliding
\* window, whose latest reducers hold `latest`
WindowStats(T, rows, latest) ==
    LET n == WSum(T, rows, [r \in rows |-> 1])
        mean_speed == RNorm(WSum(T, rows, [r \in rows |-> r.speed]), n)
        avg_speed_sq == RNorm(WSum(T, rows, [r \in rows |-> r.speed * r.speed]), n)
        mean_carbon == RDiv(RSumFn([r \in rows |-> RMul(R(T[r]), r.carbon_kg)]), R(n))
        avg_carbon_sq ==
            RDiv(RSumFn([r \in rows |-> RMul(R(T[r]), RMul(r.carbon_kg, r.carbon_kg))]), R(n))
        std_speed == StdSq(avg_speed_sq, mean_speed)
        std_carbon == StdSq(avg_carbon_sq, mean_carbon)
    IN  [count |-> n,
         mean_speed |-> mean_speed, avg_speed_sq |-> avg_speed_sq,
         mean_carbon |-> mean_carbon, avg_carbon_sq |-> avg_carbon_sq,
         latest_speed |-> latest.speed, latest_carbon |-> latest.carbon_kg,
         std_speed_sq |-> std_speed, std_carbon_sq |-> std_carbon,
         speed_zscore_sq |-> ZScoreSq(R(latest.speed), mean_speed, std_speed),
         carbon_zscore_sq |-> ZScoreSq(latest.carbon_kg, mean_carbon, std_carbon)]

\* the row of window k, given the statistics st of its rows
ZStatsRow(k, st) ==
    [vehicle_id |-> k[1], window_time |-> k[2], count |-> st.count,
     mean_speed |-> st.mean_speed, avg_speed_sq |-> st.avg_speed_sq,
     mean_carbon |-> st.mean_carbon, avg_carbon_sq |-> st.avg_carbon_sq,
     latest_speed |-> st.latest_speed, latest_carbon |-> st.latest_carbon,
     std_speed_sq |-> st.std_speed_sq, std_carbon_sq |-> st.std_carbon_sq,
     speed_zscore_sq |-> st.speed_zscore_sq, carbon_zscore_sq |-> st.carbon_zscore_sq]

\* the statistics table, keyed by <<vehicle_id, window_start>>; windows that
\* hold the same rows and the same latest values share one evaluation
ZStats(T, L) ==
    LET keys == SlidingKeys(T)
        in == Table([k \in keys |-> <<SlidingRows(T, k), L[k]>>])
        st == Table([p \in {in[k] : k \in keys} |-> WindowStats(T, p[1], p[2])])
    IN  Table([k \in keys |-> ZStatsRow(k, st[in[k]])])

\* z > c for a z-score carried as z*z and c >= 0
ZGt(zsq, c) == RGt(zsq, RMul(c, c))

ZCriticalFactor == <<3, 2>>          \* threshold * 1.5

\* the greatest r with r * r <= n, searched upwards from r
RECURSIVE SqrtFrom(_, _)
SqrtFrom(n, r) == IF (r + 1) * (r + 1) > n THEN r ELSE SqrtFrom(n, r + 1)

\* f"{z:.1f}" of a z-score carried as z*z: the tenths t with
\* (t - 1/2)^2 <= 100 z^2 < (t + 1/2)^2, which lie between the roots of
\* 100 * floor(z^2) and 100 * (floor(z^2) + 1)
ZFmt1(zsq) ==
    LET q == zsq[1] \div zsq[2]
        lo == SqrtFrom(100 * q, 0)
    IN  CHOOSE t \in lo .. SqrtFrom(100 * (q + 1), lo) + 1 :
            /\ t = 0 \/ RLe(<<(2 * t - 1) * (2 * t - 1), 400>>, zsq)
            /\ RLt(zsq, <<(2 * t + 1) * (2 * t + 1), 400>>)

ZFires(z) ==
    ZGt(z.speed_zscore_sq, zscore_threshold) \/ ZGt(z.carbon_zscore_sq, zscore_threshold)

\* an alert row whose type is tested on carbon first
ZAlertRowCarbonFirst(z) ==
    [vehicle_id |-> z.vehicle_id,
     anomaly_type |-> IF ZGt(z.carbon_zscore_sq, zscore_threshold)
                      THEN "carbon_zscore" ELSE "speed_zscore",
     severity |-> IF \/ ZGt(z.speed_zscore_sq, RMul(zscore_threshold, ZCriticalFactor))
                     \/ ZGt(z.carbon_zscore_sq, RMul(zscore_threshold, ZCriticalFactor))
                  THEN "critical" ELSE "high",
     message |-> <<"Z-score anomaly", ZFmt1(z.speed_zscore_sq), ZFmt1(z.carbon_zscore_sq)>>,
     speed_zscore_sq |-> z.speed_zscore_sq, carbon_zscore_sq |-> z.carbon_zscore_sq,
     timestamp |-> z.window_time]

ZAlertRow(z) ==
    [vehicle_id |-> z.vehicle_id,
     anomaly_type |-> IF ZGt(z.speed_zscore_sq, zscore_threshold)
                      THEN "speed_zscore" ELSE "carbon_zscore",
     severity |-> IF \/ ZGt(z.speed_zscore_sq, RMul(zscore_threshold, ZCriticalFactor))
                     \/ ZGt(z.carbon_zscore_sq, RMul(zscore_threshold, ZCriticalFactor))
                  THEN "critical" ELSE "high",
     message |-> <<"Z-score anomaly", ZFmt1(z.speed_zscore_sq), ZFmt1(z.carbon_zscore_sq)>>,
     speed_zscore_sq |-> z.speed_zscore_sq, carbon_zscore_sq |-> z.carbon_zscore_sq,
     timestamp |-> z.window_time]

\* the alert table; at most one row per sliding window, rows differ in
\* (vehicle_id, timestamp), so the bag is a set of rows with one copy each
detect_zscore_anomalies(T, L) ==
    LET Z == ZStats(T, L)
    IN  Table([a \in {ZAlertRow(Z[k]) : k \in {x \in DOMAIN Z : ZFires(Z[x])}} |-> 1])

ThresholdAlerts == detect_threshold_anomalies(Telemetry)
ZscoreAlerts == detect_zscore_anomalies(Telemetry, zLatest)
RouteAlerts == detect_route_deviations(Telemetry)

\* main.py: threshold_alerts.concat(zscore_alerts).concat(route_alerts); the
\* three schemas differ, so rows of different detectors are never equal
AllAlerts ==
    [a \in DOMAIN ThresholdAlerts \cup DOMAIN ZscoreAlerts \cup DOMAIN RouteAlerts |->
        IF a \in DOMAIN ThresholdAlerts THEN ThresholdAlerts[a]
        ELSE IF a \in DOMAIN ZscoreAlerts THEN ZscoreAlerts[a] ELSE RouteAlerts[a]]

-----------------------------------------------------------------------------
(* services/risk_scoring.py                                                *)

\* a count of the alerts of all vehicles
AlertCountOfFleet(A, v) == SumFn([a \in DOMAIN A |-> A[a]])

\* alerts.groupby(vehicle_id).reduce(count()), coalesced to 0
AlertCount(A, v) == SumFn([a \in {x \in DOMAIN A : x.vehicle_id = v} |-> A[a]])

\* an impact of 40 points per alert
alert_impact_steep(total) == RMin(R(100), R(total * 40))

alert_impact(total) == RMin(R(100), R(total * 20))

efficiency_impact(eff) ==
    IF RGe(eff, R(8)) THEN R(10)
    ELSE IF RGe(eff, R(6)) THEN R(25)
    ELSE IF RGe(eff, R(4)) THEN R(55) ELSE R(85)

carbon_impact(carbon) == RMin(R(100), RMul(carbon, R(5)))

status_impact(route_cnt, speed_var) ==
    RMin(R(100), R(route_cnt * 35 + (IF RGt(speed_var, R(30)) THEN 35 ELSE 10)))

RiskFormula(a, e, c, s) ==
    RAdd(RAdd(RMul(<<7, 20>>, a), RMul(<<1, 4>>, e)),
         RAdd(RMul(<<1, 4>>, c), RMul(<<3, 20>>, s)))

\* lambda part, risk: (part / risk) * 100.0 if risk > 0 else 0.0
ImpactPct(part, risk) ==
    IF RGt(risk, R(0)) THEN RMul(RDiv(part, risk), R(100)) ELSE R(0)

RiskRow(W, TA, ZA, RA, v) ==
    LET wk == {k \in DOMAIN W : k[1] = v}
        n == Cardinality(wk)
        avg_efficiency == RDiv(RSumFn([k \in wk |-> W[k].fuel_efficiency]), R(n))
        avg_carbon_kg == RDiv(RSumFn([k \in wk |-> W[k].carbon_kg]), R(n))
        speed_var == RNorm(SumFn([k \in wk |-> W[k].speed_variance]), n)
        threshold_alert_count == AlertCount(TA, v)
        zscore_alert_count == AlertCount(ZA, v)
        route_alert_count == AlertCount(RA, v)
        total_alerts == threshold_alert_count + zscore_alert_count + route_alert_count
        a == alert_impact(total_alerts)
        e == efficiency_impact(avg_efficiency)
        c == carbon_impact(avg_carbon_kg)
        s == status_impact(route_alert_count, speed_var)
        risk == RiskFormula(a, e, c, s)
    IN  [vehicle_id |-> v,
         avg_speed |-> RDiv(RSumFn([k \in wk |-> W[k].avg_speed]), R(n)),
         avg_efficiency |-> avg_efficiency, avg_carbon_kg |-> avg_carbon_kg,
         speed_var |-> speed_var,
         threshold_alert_count |-> threshold_alert_count,
         zscore_alert_count |-> zscore_alert_count,
         route_alert_count |-> route_alert_count,
         total_alerts |-> total_alerts,
         alert_impact |-> a, efficiency_impact |-> e, carbon_impact |-> c, status_impact |-> s,
         risk_score |-> risk,
         alert_impact_pct |-> ImpactPct(RMul(<<7, 20>>, a), risk),
         efficiency_impact_pct |-> ImpactPct(RMul(<<1, 4>>, e), risk),
         carbon_impact_pct |-> ImpactPct(RMul(<<1, 4>>, c), risk),
         status_impact_pct |-> ImpactPct(RMul(<<3, 20>>, s), risk)]

\* the risk table, keyed by vehicle_id
compute_risk_scores(W, TA, ZA, RA) ==
    Table([v \in {k[1] : k \in DOMAIN W} |-> RiskRow(W, TA, ZA, RA, v)])

RiskScores == compute_risk_scores(Windowed, ThresholdAlerts, ZscoreAlerts, RouteAlerts)

-----------------------------------------------------------------------------
(* state_machine/vehicle_state.py                                          *)

STATE_NORMAL == "NORMAL"
STATE_EFFICIENT == "EFFICIENT"
STATE_HIGH_EMISSION == "HIGH_EMISSION"
STATE_ROUTE_DEVIATION == "ROUTE_DEVIATION"
STATE_IDLE == "IDLE"
STATE_CRITICAL_RISK == "CRITICAL_RISK"

EMISSION_THRESHOLD_KG == 15
EFFICIENCY_GOOD_THRESHOLD == 7
IDLE_SPEED_KMH == 5
CRITICAL_RISK_SCORE == 80
CRITICAL_ALERT_COUNT == 3

\* _determine_state with the emission rule tried before the route rule
_determine_state_emission_first(carbon_kg, avg_speed, fuel_efficiency, risk_score, alert_count, route_deviation) ==
    IF RGt(risk_score, R(CRITICAL_RISK_SCORE)) \/ alert_count >= CRITICAL_ALERT_COUNT
    THEN STATE_CRITICAL_RISK
    ELSE IF RGt(carbon_kg, R(EMISSION_THRESHOLD_KG)) THEN STATE_HIGH_EMISSION
    ELSE IF route_deviation = 1 THEN STATE_ROUTE_DEVIATION
    ELSE IF RLt(avg_speed, R(IDLE_SPEED_KMH)) THEN STATE_IDLE
    ELSE IF RGt(fuel_efficiency, R(EFFICIENCY_GOOD_THRESHOLD)) /\ alert_count = 0
    THEN STATE_EFFICIENT
    ELSE STATE_NORMAL

\* _determine_state without the alert-count test
_determine_state_score_only(carbon_kg, avg_speed, fuel_efficiency, risk_score, alert_count, route_deviation) ==
    IF RGt(risk_score, R(CRITICAL_RISK_SCORE)) THEN STATE_CRITICAL_RISK
    ELSE IF route_deviation = 1 THEN STATE_ROUTE_DEVIATION
    ELSE IF RGt(carbon_kg, R(EMISSION_THRESHOLD_KG)) THEN STATE_HIGH_EMISSION
    ELSE IF RLt(avg_speed, R(IDLE_SPEED_KMH)) THEN STATE_IDLE
    ELSE IF RGt(fuel_efficiency, R(EFFICIENCY_GOOD_THRESHOLD)) /\ alert_count = 0
    THEN STATE_EFFICIENT
    ELSE STATE_NORMAL

_determine_state(carbon_kg, avg_speed, fuel_efficiency, risk_score, alert_count, route_deviation) ==
    IF RGt(risk_score, R(CRITICAL_RISK_SCORE)) \/ alert_count >= CRITICAL_ALERT_COUNT
    THEN STATE_CRITICAL_RISK
    ELSE IF route_deviation = 1 THEN STATE_ROUTE_DEVIATION
    ELSE IF RGt(carbon_kg, R(EMISSION_THRESHOLD_KG)) THEN STATE_HIGH_EMISSION
    ELSE IF RLt(avg_speed, R(IDLE_SPEED_KMH)) THEN STATE_IDLE
    ELSE IF RGt(fuel_efficiency, R(EFFICIENCY_GOOD_THRESHOLD)) /\ alert_count = 0
    THEN STATE_EFFICIENT
    ELSE STATE_NORMAL

_state_to_risk_level(state) ==
    CASE state = STATE_CRITICAL_RISK -> "critical"
      [] state = STATE_HIGH_EMISSION -> "high"
      [] state = STATE_ROUTE_DEVIATION -> "high"
      [] state = STATE_IDLE -> "medium"
      [] state = STATE_NORMAL -> "low"
      [] state = STATE_EFFICIENT -> "minimal"
      [] OTHER -> "low"

\* the f-strings: the fixed text is the first component, the formatted
\* numbers follow
_transition_reason(carbon_kg, avg_speed, fuel_efficiency, risk_score, alert_count, route_deviation, state) ==
    CASE state = STATE_CRITICAL_RISK ->
            <<"Risk score > 80 or alerts triggered", Fmt1(risk_score), alert_count>>
      [] state = STATE_ROUTE_DEVIATION ->
            <<"Vehicle coordinates outside permitted route bounds">>
      [] state = STATE_HIGH_EMISSION ->
            <<"Carbon emissions exceeds threshold", Fmt1(carbon_kg)>>
      [] state = STATE_IDLE ->
            <<"Average speed below idle threshold", Fmt1(avg_speed)>>
      [] state = STATE_EFFICIENT ->
            <<"Fuel efficiency above threshold with no alerts", Fmt1(fuel_efficiency)>>
      [] OTHER -> <<"All metrics within normal operating range">>

\* with_risk and combined: the classifier's inputs for one windowed row
CombinedRow(w, RS, RA) ==
    LET v == w.vehicle_id
    IN  [vehicle_id |-> v, avg_carbon_kg |-> w.carbon_kg, avg_speed |-> w.avg_speed,
         avg_efficiency |-> w.fuel_efficiency,
         alert_count |-> IF v \in DOMAIN RS THEN RS[v].total_alerts ELSE 0,
         risk_score |-> IF v \in DOMAIN RS THEN RS[v].risk_score ELSE R(0),
         route_deviation |-> AlertCount(RA, v)]

VehicleStateRow(c) ==
    LET current_state == _determine_state(c.avg_carbon_kg, c.avg_speed, c.avg_efficiency,
                                          c.risk_score, c.alert_count, c.route_deviation)
    IN  [vehicle_id |-> c.vehicle_id,
         current_state |-> current_state,
         previous_state |-> STATE_NORMAL,
         transition_reason |-> _transition_reason(c.avg_carbon_kg, c.avg_speed,
                                   c.avg_efficiency, c.risk_score, c.alert_count,
                                   c.route_deviation, current_state),
         risk_level |-> _state_to_risk_level(current_state),
         risk_score |-> c.risk_score]

\* one row per windowed row (the joins keep the left table's rows), keyed
\* like the windowed table by <<vehicle_id, window_start>>
compute_vehicle_states(W, RS, RA) ==
    [k \in DOMAIN W |-> VehicleStateRow(CombinedRow(W[k], RS, RA))]

compute_state_history(VS) ==
    [k \in DOMAIN VS |->
        [vehicle_id |-> VS[k].vehicle_id, state |-> VS[k].current_state,
         risk_level |-> VS[k].risk_level, reason |-> VS[k].transition_reason]]

\* main.py: the classifier's inputs as a function of the telemetry table T
\* and the state ZL of the sliding-window latest reducers
CombinedOf(T, ZL) ==
    LET W == compute_rolling_windows(T)
        RA == detect_route_deviations(T)
        RS == compute_risk_scores(W, detect_threshold_anomalies(T),
                                  detect_zscore_anomalies(T, ZL), RA)
    IN  Table([k \in DOMAIN W |-> CombinedRow(W[k], RS, RA)])

\* main.py: vehicle_states and state_history as functions of the same
VehicleStatesOf(T, ZL) ==
    LET W == compute_rolling_windows(T)
        RA == detect_route_deviations(T)
        RS == compute_risk_scores(W, detect_threshold_anomalies(T),
                                  detect_zscore_anomalies(T, ZL), RA)
    IN  Table(compute_vehicle_states(W, RS, RA))

StateHistoryOf(T, ZL) == Table(compute_state_history(VehicleStatesOf(T, ZL)))

Combined == CombinedOf(Telemetry, zLatest)
VehicleStates == VehicleStatesOf(Telemetry, zLatest)
StateHistory == StateHistoryOf(Telemetry, zLatest)

-----------------------------------------------------------------------------
(* features/derived.py, forecasting/predictor.py                           *)

MicroWindowSec == 10
max_acceleration_kmh_per_sec == 15

\* the micro-window table, keyed by <<vehicle_id, window_start>>
detect_acceleration_spikes(T) ==
    LET start(ts) == (ts \div MicroWindowSec) * MicroWindowSec
        keys == {<<r.vehicle_id, start(r.timestamp)>> : r \in DOMAIN T}
    IN  Table([k \in keys |->
            LET speeds == {r.speed : r \in {x \in DOMAIN T :
                               x.vehicle_id = k[1] /\ start(x.timestamp) = k[2]}}
            IN  [vehicle_id |-> k[1], max_speed |-> Max(speeds), min_speed |-> Min(speeds),
                 window_time |-> k[2], speed_delta |-> Max(speeds) - Min(speeds),
                 is_acceleration_spike |->
                     Max(speeds) - Min(speeds) > max_acceleration_kmh_per_sec]])

\* compute_predictions, the table `base` the predictors are applied to row by
\* row: one row per windowed row, keyed like the windowed table
PredictionBase(W, RS) ==
    Table([k \in DOMAIN W |->
        LET v == W[k].vehicle_id
        IN  [vehicle_id |-> v, avg_carbon_kg |-> W[k].carbon_kg,
             avg_efficiency |-> W[k].fuel_efficiency, avg_speed |-> W[k].avg_speed,
             avg_fuel_consumed |-> W[k].total_fuel,
             alert_count |-> IF v \in DOMAIN RS THEN RS[v].total_alerts ELSE 0,
             risk_score |-> IF v \in DOMAIN RS THEN RS[v].risk_score ELSE R(0)]])

\* round(x, 1) and round(x, 2): to the nearest tenth / hundredth, half to even
Round1(x) == RNorm(Fmt1(x), 10)
Round2(x) == RDiv(Round1(RMul(x, R(10))), R(10))

\* a forecast that is not clamped
_predict_carbon_10min_unclamped(avg_carbon_kg, avg_efficiency, avg_speed) ==
    LET carbon_rate_per_min == RDiv(avg_carbon_kg, R(5))
        speed_factor == RAdd(R(1), RDiv(RMax(RSub(avg_speed, R(60)), R(0)), R(100)))
        efficiency_penalty == RMax(R(0), RDiv(RSub(R(5), avg_efficiency), R(5)))
        adjusted_rate == RMul(RMul(carbon_rate_per_min, speed_factor),
                              RAdd(R(1), RMul(efficiency_penalty, <<3, 10>>)))
    IN  Round2(RAdd(avg_carbon_kg, RMul(adjusted_rate, R(10))))

_predict_carbon_10min(avg_carbon_kg, avg_efficiency, avg_speed) ==
    LET window_minutes == R(5)
        carbon_rate_per_min == RDiv(avg_carbon_kg, window_minutes)
        speed_factor == RAdd(R(1), RDiv(RMax(RSub(avg_speed, R(60)), R(0)), R(100)))
        efficiency_penalty == RMax(R(0), RDiv(RSub(R(5), avg_efficiency), R(5)))
        adjusted_rate == RMul(RMul(carbon_rate_per_min, speed_factor),
                              RAdd(R(1), RMul(efficiency_penalty, <<3, 10>>)))
        predicted == RAdd(avg_carbon_kg, RMul(adjusted_rate, R(10)))
    IN  Round2(RMax(R(0), RMin(R(200), predicted)))

_predict_risk_score(current_risk, alert_count, avg_carbon_kg, avg_speed) ==
    LET risk_trend_contribution == RMul(current_risk, <<55, 100>>)
        alert_contribution == RMin(R(alert_count * 8), R(30))
        carbon_contribution == RMin(RMul(avg_carbon_kg, <<1, 2>>), R(20))
        speed_contribution == RMax(R(0), RMul(RSub(avg_speed, R(90)), <<1, 4>>))
        raw == RAdd(RAdd(risk_trend_contribution, alert_contribution),
                    RAdd(carbon_contribution, speed_contribution))
    IN  Round1(RMin(R(100), RMax(R(0), raw)))

\* a guard that tests the rate against 0
_fuel_exhaustion_minutes_zero_guard(avg_fuel_consumed, avg_efficiency, avg_speed) ==
    LET fuel_rate_per_min == RDiv(avg_fuel_consumed, R(5))
    IN  IF RLe(fuel_rate_per_min, R(0)) THEN R(-1)
        ELSE Round1(RMax(R(0), RDiv(R(40 - 10), fuel_rate_per_min)))

_fuel_exhaustion_minutes(avg_fuel_consumed, avg_efficiency, avg_speed) ==
    LET window_minutes == R(5)
        fuel_rate_per_min == RDiv(avg_fuel_consumed, window_minutes)
        usable_fuel == R(40 - 10)
    IN  IF RLt(fuel_rate_per_min, <<1, 100>>) THEN R(-1)
        ELSE Round1(RMax(R(0), RDiv(usable_fuel, fuel_rate_per_min)))

-----------------------------------------------------------------------------
(* services/sustainability.py                                              *)

\* max(0, min(100, x))
Clamp100(x) == RMax(R(0), RMin(R(100), x))

_compute_score(carbon_per_km, efficiency, avg_speed) ==
    LET carbon_score == Clamp100(RMul(RDiv(RSub(R(5), carbon_per_km), <<9, 2>>), R(100)))
        fuel_score == Clamp100(RMul(RDiv(RSub(efficiency, R(2)), R(8)), R(100)))
        speed_deviation == RAbs(RSub(avg_speed, R(80)))
        speed_score == Clamp100(RMul(RDiv(RSub(R(40), speed_deviation), R(40)), R(100)))
    IN  RAdd(RAdd(RMul(carbon_score, <<35, 100>>), RMul(fuel_score, <<35, 100>>)),
             RMul(speed_score, <<30, 100>>))

_compute_grade(score) ==
    IF RGe(score, R(90)) THEN "A+"
    ELSE IF RGe(score, R(80)) THEN "A"
    ELSE IF RGe(score, R(70)) THEN "B"
    ELSE IF RGe(score, R(60)) THEN "C"
    ELSE IF RGe(score, R(50)) THEN "D"
    ELSE "F"

SustainabilityRow(W, v) ==
    LET wk == {k \in DOMAIN W : k[1] = v}
        n == Cardinality(wk)
        total_carbon == RSumFn([k \in wk |-> W[k].carbon_kg])
        total_distance == SumFn([k \in wk |-> W[k].total_distance])
        avg_carbon_per_km == RDiv(total_carbon, RMax(R(total_distance), <<1, 10>>))
        avg_efficiency == RDiv(RSumFn([k \in wk |-> W[k].fuel_efficiency]), R(n))
        avg_speed == RDiv(RSumFn([k \in wk |-> W[k].avg_speed]), R(n))
        score == _compute_score(avg_carbon_per_km, avg_efficiency, avg_speed)
    IN  [vehicle_id |-> v, avg_carbon_per_km |-> avg_carbon_per_km,
         avg_efficiency |-> avg_efficiency, avg_speed |-> avg_speed,
         total_carbon |-> total_carbon, total_distance |-> total_distance,
         sustainability_score |-> score, grade |-> _compute_grade(score)]

\* the sustainability table, keyed by vehicle_id
compute_sustainability_scores(W) ==
    Table([v \in {k[1] : k \in DOMAIN W} |-> SustainabilityRow(W, v)])

Sustainability == compute_sustainability_scores(Windowed)

-----------------------------------------------------------------------------
(* reporting/fleet_report.py                                               *)

\* f"{x:.0f}": x rounded to an integer, half to even
Fmt0(a) ==
    LET q == a[1] \div a[2]
        r == a[1] % a[2]
    IN  IF 2 * r < a[2] THEN q
        ELSE IF 2 * r > a[2] THEN q + 1
        ELSE IF q % 2 = 0 THEN q ELSE q + 1

\* a classification that includes the limits
FleetHealthInclusive(alerts) ==
    IF alerts >= 10 THEN "critical" ELSE IF alerts >= 5 THEN "degraded" ELSE "healthy"

FleetHealth(alerts) ==
    IF alerts > 10 THEN "critical" ELSE IF alerts > 5 THEN "degraded" ELSE "healthy"

\* the f-string: the fixed text first, then the formatted parts in order
_generate_executive_summary(total_carbon, alert_count, avg_sustainability, avg_risk, max_carbon_vehicle, active_vehicles) ==
    LET health == FleetHealth(alert_count)
        grade == IF RGt(avg_sustainability, R(80)) THEN "A"
                 ELSE IF RGt(avg_sustainability, R(60)) THEN "B"
                 ELSE IF RGt(avg_sustainability, R(40)) THEN "C" ELSE "D"
        trend == IF RGt(total_carbon, R(50)) THEN "above" ELSE "within"
    IN  <<"Fleet Intelligence Report", Fmt1(total_carbon), active_vehicles, trend,
          health, alert_count, grade, Fmt0(avg_sustainability), Fmt0(avg_risk),
          max_carbon_vehicle,
          IF health = "critical" THEN "Immediate intervention recommended."
          ELSE IF health = "degraded" THEN "Monitor closely." ELSE "Operations nominal.">>

\* with_risk and with_sustainability: one row per windowed row
WithSustainabilityRow(w, RS, SU) ==
    LET v == w.vehicle_id
    IN  [vehicle_id |-> v, avg_carbon_kg |-> w.carbon_kg, avg_efficiency |-> w.fuel_efficiency,
         alert_count |-> IF v \in DOMAIN RS THEN RS[v].total_alerts ELSE 0,
         risk_score |-> IF v \in DOMAIN RS THEN RS[v].risk_score ELSE R(0),
         sustainability_score |-> IF v \in DOMAIN SU THEN SU[v].sustainability_score
                                  ELSE R(50)]

\* fleet_agg: with_sustainability grouped by vehicle_id, keyed by vehicle_id
FleetAgg(W, RS, SU) ==
    Table([v \in {k[1] : k \in DOMAIN W} |->
        LET wk == {k \in DOMAIN W : k[1] = v}
            rows == [k \in wk |-> WithSustainabilityRow(W[k], RS, SU)]
            n == Cardinality(wk)
        IN  [vehicle_id |-> v,
             total_carbon |-> RSumFn([k \in wk |-> rows[k].avg_carbon_kg]),
             alert_count |-> SumFn([k \in wk |-> rows[k].alert_count]),
             avg_risk |-> RDiv(RSumFn([k \in wk |-> rows[k].risk_score]), R(n)),
             avg_sustainability |->
                 RDiv(RSumFn([k \in wk |-> rows[k].sustainability_score]), R(n)),
             max_carbon_vehicle |-> v]])

\* fleet_summary and reports: the one row of the global reduce (no row while
\* fleet_agg is empty)
FleetReports(W, RS, SU) ==
    LET A == FleetAgg(W, RS, SU)
        n == Cardinality(DOMAIN A)
        total_carbon == RSumFn([v \in DOMAIN A |-> A[v].total_carbon])
        total_alerts == SumFn([v \in DOMAIN A |-> A[v].alert_count])
        avg_risk == RDiv(RSumFn([v \in DOMAIN A |-> A[v].avg_risk]), R(n))
        avg_sustainability == RDiv(RSumFn([v \in DOMAIN A |-> A[v].avg_sustainability]), R(n))
    IN  IF n = 0 THEN EmptyBag
        ELSE Table([r \in {[total_carbon |-> total_carbon, active_vehicles |-> n,
                            total_alerts |-> total_alerts, avg_risk |-> avg_risk,
                            avg_sustainability |-> avg_sustainability,
                            executive_summary |->
                                _generate_executive_summary(total_carbon, total_alerts,
                                    avg_sustainability, avg_risk, "Fleet", n),
                            fleet_health |-> FleetHealth(total_alerts)]} |-> 1])

\* (latest_report, report_history): the second is a select of all the columns
\* of the first
compute_fleet_reports(W, RS, SU) ==
    LET reports == FleetReports(W, RS, SU)
    IN  <<reports, BagMap(reports, [r \in DOMAIN reports |-> r])>>

\* main.py: the two report tables as functions of the telemetry table T and
\* the state ZL of the sliding-window latest reducers
FleetReportsOf(T, ZL) ==
    LET W == compute_rolling_windows(T)
        RS == compute_risk_scores(W, detect_threshold_anomalies(T),
                                  detect_zscore_anomalies(T, ZL), detect_route_deviations(T))
    IN  compute_fleet_reports(W, RS, compute_sustainability_scores(W))

LatestReport == FleetReportsOf(Telemetry, zLatest)[1]
ReportHistory == FleetReportsOf(Telemetry, zLatest)[2]

-----------------------------------------------------------------------------
(* The input rows the model draws from.                                    *)

MaxEvents == 4          \* rows ingested in a run of Spec

OnRouteLat == 407128    \* the reference point of V-101 and the default
OffRouteLat == OnRouteLat + 540   \* 6.0 km north of it
RouteLon == -740060

Vehicles == {"V-101", "V-999"}

GpsFeed ==
    {GPSSchema("V-101", p[2], RouteLon, p[1], ts) :
        p \in {<<60, OnRouteLat>>, <<130, OnRouteLat>>, <<60, OffRouteLat>>, <<3, OnRouteLat>>},
        ts \in {<<4, 50>>, <<5, 10>>}}
    \cup {GPSSchema("V-999", lat, RouteLon, 60, <<4, 50>>) : lat \in {OnRouteLat, OffRouteLat}}

FuelFeed ==
    {FuelSchema("V-101", p[1], p[2], p[3], ts) :
        p \in {<<3, 25, "diesel">>, <<1, 2, "gasoline">>}, ts \in {<<5, 0>>, <<5, 40>>}}
    \cup {FuelSchema("V-999", 3, 25, "diesel", <<5, 0>>)}

ShipmentFeed ==
    {ShipmentSchema("S-1", "V-101", "in_transit", "New York", "Boston", <<4, 0>>),
     ShipmentSchema("S-2", "V-101", "delayed", "New York", "Newark", <<6, 0>>)}

-----------------------------------------------------------------------------
(* The engine: one commit per ingested row.                                *)

NoCall == [fn |-> "none"]

\* api/server.py: _crisis_state as the module is loaded
\* (started_at is <<>> for None and <<t>> for the time t)
NoCrisis == [enabled |-> FALSE, vehicle_id |-> NULL, started_at |-> <<>>]

Init ==
    /\ gps = EmptyBag
    /\ fuel = EmptyBag
    /\ shipments = EmptyBag
    /\ shipLatest = EmptyBag
    /\ zLatest = EmptyBag
    /\ lastRunState = EmptyBag
    /\ stateChanges = EmptyBag
    /\ call = NoCall
    /\ _crisis_state = NoCrisis

Ingested == BagSize(gps) + BagSize(fuel) + BagSize(shipments)

Perms(S) ==
    {f \in [1 .. Cardinality(S) -> S] : \A i, j \in DOMAIN f : i # j => f[i] # f[j]}

\* rows of T2 that T1 does not hold (as many times)
NewRows(T1, T2) == {r \in DOMAIN T2 : T2[r] > Copies(T1, r)}

\* pw.reducers.latest over a sliding window: the value of the row that came
\* last (processing time).  The rows of one commit come at the same time;
\* ord is the order in which the engine takes them.
LatestStep(ZL, T2, ord) ==
    [k \in SlidingKeys(T2) |->
        LET here == {i \in DOMAIN ord : ord[i] \in SlidingRows(T2, k)}
        IN  IF here = {} THEN ZL[k]
            ELSE [speed |-> ord[Max(here)].speed, carbon_kg |-> ord[Max(here)].carbon_kg]]

\* The state a row of vehicle_states had under the classifier inputs C
StateIn(C, k) == IF k \in DOMAIN C THEN VehicleStateRow(C[k]).current_state ELSE NULL

\* A row of vehicle_states is recomputed when its inputs change (C1 -> C2).
Recomputed(C1, C2, k) == k \notin DOMAIN C1 \/ C2[k] # C1[k]

\* a commit that adds rows to the telemetry table: T1 -> T2.  The tables of
\* the commit are bound once each (\E x \in {e} binds x to the value of e).
TelemetryStep(T1, T2) ==
    \E new \in {NewRows(T1, T2)} :
        IF new = {}
        THEN UNCHANGED <<zLatest, lastRunState, stateChanges>>
        ELSE \E C1 \in {CombinedOf(T1, zLatest)}, ord \in Perms(new) :
             \E ZL2 \in {LatestStep(zLatest, T2, ord)} :
             \E C2 \in {CombinedOf(T2, ZL2)} :
             \E S1 \in {[k \in DOMAIN C2 |-> StateIn(C1, k)]},
                S2 \in {[k \in DOMAIN C2 |-> StateIn(C2, k)]} :
                /\ zLatest' = ZL2
                /\ lastRunState' =
                      [k \in DOMAIN C2 |->
                          IF Recomputed(C1, C2, k) THEN S1[k] ELSE lastRunState[k]]
                /\ stateChanges' =
                      [v \in {k[1] : k \in DOMAIN C2} |->
                          Copies(stateChanges, v)
                          + Cardinality({k \in DOMAIN C2 :
                                /\ k[1] = v
                                /\ Recomputed(C1, C2, k)
                                /\ S2[k] # S1[k]})]

IngestGps(r) ==
    /\ gps' = BagAdd(gps, r)
    /\ UNCHANGED <<fuel, shipments, shipLatest, call, _crisis_state>>
    /\ \E T1 \in {Telemetry}, T2 \in {TelemetryOf(BagAdd(gps, r), fuel, shipLatest)} :
           TelemetryStep(T1, T2)

IngestFuel(r) ==
    /\ fuel' = BagAdd(fuel, r)
    /\ UNCHANGED <<gps, shipments, shipLatest, call, _crisis_state>>
    /\ \E T1 \in {Telemetry}, T2 \in {TelemetryOf(gps, BagAdd(fuel, r), shipLatest)} :
           TelemetryStep(T1, T2)

\* The shipment columns of the vehicle's telemetry rows are rewritten; the
\* columns the windows, the detectors and the classifier read keep their
\* values, so no row of vehicle_states is recomputed.
IngestShipment(r) ==
    /\ shipments' = BagAdd(shipments, r)
    /\ shipLatest' = [v \in DOMAIN shipLatest \cup {r.vehicle_id} |->
                         IF v = r.vehicle_id THEN ShipmentRow(r) ELSE shipLatest[v]]
    /\ UNCHANGED <<gps, fuel, zLatest, lastRunState, stateChanges, call, _crisis_state>>

\* one row of a feed reaches its connector
GpsEvent == Ingested < MaxEvents /\ \E r \in GpsFeed : IngestGps(r)
FuelEvent == Ingested < MaxEvents /\ \E r \in FuelFeed : IngestFuel(r)
ShipmentEvent == Ingested < MaxEvents /\ \E r \in ShipmentFeed : IngestShipment(r)

Next == GpsEvent \/ FuelEvent \/ ShipmentEvent

Spec == Init /\ [][Next]_vars

-----------------------------------------------------------------------------
(* A long run of one vehicle: enough records in one sliding window for the *)
(* z-score detector to fire (one outlier among n records has z*z = n - 1). *)

MaxLongEvents == 9      \* rows ingested in a run of SpecLong

LongGpsFeed ==
    {GPSSchema("V-101", OnRouteLat, RouteLon, 150, <<4, 40>>),
     GPSSchema("V-101", OnRouteLat, RouteLon, 50, <<5, 30>>)}

\* the first fuel row is within 30 s of both GPS rows, the second of the later one only
LongFuelFeed ==
    {FuelSchema("V-101", 3, 25, "diesel", <<5, 10>>),
     FuelSchema("V-101", 4, 30, "diesel", <<5, 50>>)}

LongGpsEvent == Ingested < MaxLongEvents /\ \E r \in LongGpsFeed : IngestGps(r)
LongFuelEvent == Ingested < MaxLongEvents /\ \E r \in LongFuelFeed : IngestFuel(r)

NextLong == LongGpsEvent \/ LongFuelEvent

SpecLong == Init /\ [][NextLong]_vars

-----------------------------------------------------------------------------
(* A run whose fuel feed holds a row of negative litres: FuelSchema types  *)
(* fuel_liters as float and no step of the pipeline tests its sign.        *)

MaxNegativeEvents == 5      \* rows ingested in a run of SpecNegative

NegativeGpsFeed ==
    {GPSSchema("V-101", OnRouteLat, RouteLon, 60, ts) : ts \in {<<4, 50>>, <<5, 10>>}}
    \cup {GPSSchema("V-101", OnRouteLat, RouteLon, 130, <<5, 10>>)}

NegativeFuelFeed ==
    {FuelSchema("V-101", liters, 25, "diesel", <<5, 0>>) : liters \in {-8, 0, 3}}

NegativeGpsEvent == Ingested < MaxNegativeEvents /\ \E r \in NegativeGpsFeed : IngestGps(r)
NegativeFuelEvent == Ingested < MaxNegativeEvents /\ \E r \in NegativeFuelFeed : IngestFuel(r)

NextNegative == NegativeGpsEvent \/ NegativeFuelEvent

SpecNegative == Init /\ [][NextNegative]_vars

-----------------------------------------------------------------------------
(* The classifier called directly on inputs around its thresholds.         *)

MaxAlertCount == 4
MaxRouteDeviation == 2

CarbonInputs == {R(14), R(15), <<151, 10>>, R(16)}
SpeedInputs == {R(4), R(5), R(150)}
EfficiencyInputs == {R(2), R(7), <<71, 10>>, R(8)}
RiskInputs == {R(0), R(80), <<801, 10>>, R(85)}

DetermineState(carbon_kg, avg_speed, fuel_efficiency, risk_score, alert_count, route_deviation) ==
    /\ call = NoCall
    /\ call' = [fn |-> "_determine_state",
                carbon_kg |-> carbon_kg, avg_speed |-> avg_speed,
                fuel_efficiency |-> fuel_efficiency, risk_score |-> risk_score,
                alert_count |-> alert_count, route_deviation |-> route_deviation,
                result |-> _determine_state(carbon_kg, avg_speed, fuel_efficiency,
                                            risk_score, alert_count, route_deviation)]
    /\ UNCHANGED <<gps, fuel, shipments, shipLatest, zLatest, lastRunState, stateChanges, _crisis_state>>

NextClassifier ==
    \E c \in CarbonInputs, s \in SpeedInputs, e \in EfficiencyInputs, r \in RiskInputs,
       a \in 0 .. MaxAlertCount, d \in 0 .. MaxRouteDeviation :
        DetermineState(c, s, e, r, a, d)

SpecClassifier == Init /\ [][NextClassifier]_vars

-----------------------------------------------------------------------------
(* Properties of the join (streaming/joins.py).                            *)

\* the fuel rows within 30 s of GPS row g, same vehicle
FuelInTolerance(F, g) ==
    {f \in DOMAIN F : f.vehicle_id = g.vehicle_id /\ Abs(f.parsed_time - g.parsed_time) <= 30}

\* among them, the rows nearest in time to g and, of those, the earliest
NearestFuel(F, g) ==
    LET M == FuelInTolerance(F, g)
        dmin == Min({Abs(f.parsed_time - g.parsed_time) : f \in M})
        near == {f \in M : Abs(f.parsed_time - g.parsed_time) = dmin}
    IN  {f \in near : f.parsed_time = Min({x.parsed_time : x \in near})}

\* the telemetry records that carry the GPS columns of g
RecordsOf(T, g) ==
    {t \in DOMAIN T : /\ t.vehicle_id = g.vehicle_id /\ t.timestamp = g.parsed_time
                      /\ t.latitude = g.latitude /\ t.longitude = g.longitude
                      /\ t.speed = g.speed}

\* C1: every GPS event with at least one fuel event of its vehicle within
\* 30 s yields exactly one telemetry record, and that record carries the
\* fuel columns of the fuel event nearest in time (earliest on a tie).
C1_OneRecordPerGpsEvent ==
    \A G \in {create_gps_stream(gps)}, F \in {create_fuel_stream(fuel)} :
    \A T \in {join_gps_fuel(G, F)} :
    \A g \in DOMAIN G :
        FuelInTolerance(F, g) # {} =>
            /\ SumFn([t \in RecordsOf(T, g) |-> T[t]]) = G[g]
            /\ \A t \in RecordsOf(T, g) : \E f \in NearestFuel(F, g) :
                   /\ t.fuel_liters = f.fuel_liters
                   /\ t.distance_km = f.distance_km
                   /\ t.fuel_type = f.fuel_type

\* C1, the case: some GPS event has two fuel events within the tolerance
C1_TwoFuelEventsInTolerance ==
    \E G \in {create_gps_stream(gps)}, F \in {create_fuel_stream(fuel)} :
    \E g \in DOMAIN G :
        SumFn([f \in FuelInTolerance(F, g) |-> F[f]]) >= 2

-----------------------------------------------------------------------------
(* Properties of the tumbling windows (streaming/windows.py).              *)

\* a tumbling window is closed once a record of its vehicle at or after the
\* window's end has been seen
Closed(T, k) ==
    \E r \in DOMAIN T : r.vehicle_id = k[1] /\ r.timestamp >= k[2] + 300

\* C2: a GPS event that arrives with a timestamp inside an already closed
\* tumbling window of its vehicle leaves that window's snapshot as it was.
C2_LateEventDropped ==
    [][\A r \in GpsFeed :
          gps' = BagAdd(gps, r) =>
              \A T1 \in {Telemetry},
                 T2 \in {TelemetryOf(gps', fuel', shipLatest')},
                 k \in {<<r.vehicle_id, TumblingStart(Strptime(r.timestamp))>>} :
              \A W1 \in {compute_rolling_windows(T1)},
                 W2 \in {compute_rolling_windows(T2)} :
                  (k \in DOMAIN W1 /\ Closed(T1, k)) => W2[k] = W1[k]]_vars

\* C2, the case: a window with a snapshot is closed
C2_ClosedWindowWithSnapshot ==
    \E T \in {Telemetry} : \E W \in {compute_rolling_windows(T)} :
    \E k \in DOMAIN W : Closed(T, k)

-----------------------------------------------------------------------------
(* Properties of the classifier (state_machine/vehicle_state.py).          *)

States ==
    {STATE_NORMAL, STATE_EFFICIENT, STATE_HIGH_EMISSION, STATE_ROUTE_DEVIATION,
     STATE_IDLE, STATE_CRITICAL_RISK}

\* the rules in priority order; the route rule is the code's test, a
\* route_deviation input equal to 1
PriorityRules(c) ==
    <<<<RGt(c.risk_score, R(80)) \/ c.alert_count >= 3, "CRITICAL_RISK">>,
      <<c.route_deviation = 1, "ROUTE_DEVIATION">>,
      <<RGt(c.carbon_kg, R(15)), "HIGH_EMISSION">>,
      <<RLt(c.avg_speed, R(5)), "IDLE">>,
      <<RGt(c.fuel_efficiency, R(7)) /\ c.alert_count = 0, "EFFICIENT">>,
      <<TRUE, "NORMAL">>>>

C4_RouteAlertGivesRouteDeviation ==
    \A T \in {Telemetry} :
    \A C \in {CombinedOf(T, zLatest)}, VS \in {VehicleStatesOf(T, zLatest)},
       RA \in {detect_route_deviations(T)} :
    \A k \in DOMAIN VS :
        (/\ AlertCount(RA, k[1]) >= 1
         /\ RLe(C[k].risk_score, R(80))
         /\ C[k].alert_count < 3)
        => VS[k].current_state = "ROUTE_DEVIATION"

\* C4, the case: a vehicle with exactly one route-deviation alert is in
\* state ROUTE_DEVIATION
C4_OneRouteAlert ==
    \E T \in {Telemetry} :
    \E VS \in {VehicleStatesOf(T, zLatest)}, RA \in {detect_route_deviations(T)} :
    \E k \in DOMAIN VS :
        AlertCount(RA, k[1]) = 1 /\ VS[k].current_state = "ROUTE_DEVIATION"

\* the number of history records of vehicle v
HistoryCount(H, v) == Cardinality({k \in DOMAIN H : k[1] = v})

\* C5: for every vehicle the number of history records equals the number of
\* classification runs whose state differed from the state computed before
\* (the first classification counted as a change).
C5_HistoryCountsStateChanges ==
    \A H \in {StateHistory} :
    \A v \in Vehicles : HistoryCount(H, v) = Copies(stateChanges, v)

\* C6: previous_state of a vehicle_states row is the current_state the row
\* had before its most recent classification run.
C6_PreviousStateIsPriorState ==
    \A VS \in {VehicleStates} :
    \A k \in DOMAIN VS :
        (k \in DOMAIN lastRunState /\ lastRunState[k] # NULL)
        => VS[k].previous_state = lastRunState[k]

\* C6, the case: a row has been classified again after a first state
C6_Reclassified ==
    \E k \in DOMAIN lastRunState : lastRunState[k] # NULL

\* the history records as a bag
HistoryBag(H) == BagMap([k \in DOMAIN H |-> 1], H)

\* C7: every history record present before a step is present, with the
\* same vehicle_id, state, risk_level and reason, after the step.
C7_HistoryAppendOnly ==
    [][\A H1 \in {HistoryBag(StateHistory)},
          H2 \in {HistoryBag(StateHistoryOf(TelemetryOf(gps', fuel', shipLatest'),
                                            zLatest'))} :
          BagLe(H1, H2)]_vars

-----------------------------------------------------------------------------
(* Properties of the alerts (anomalies/zscore.py, main.py).                *)

\* C8: every alert of the three detectors that is present before a step is
\* present and unchanged after the step.
C8_AlertsWriteOnce ==
    [][\A T1 \in {Telemetry}, T2 \in {TelemetryOf(gps', fuel', shipLatest')} :
          /\ BagLe(detect_threshold_anomalies(T1), detect_threshold_anomalies(T2))
          /\ BagLe(detect_route_deviations(T1), detect_route_deviations(T2))
          /\ BagLe(detect_zscore_anomalies(T1, zLatest),
                   detect_zscore_anomalies(T2, zLatest'))]_vars

\* C8, the case: a z-score alert is present
C8_ZscoreAlertPresent ==
    \E A \in {ZscoreAlerts} : DOMAIN A # {}

\* mean of the column col over the rows of a window (T[r] copies of row r)
MeanOf(T, rows, col) ==
    RDiv(RSumFn([r \in rows |-> RMul(R(T[r]), col[r])]),
         R(SumFn([r \in rows |-> T[r]])))

\* population variance of the column: the mean squared deviation from the mean
VarianceOf(T, rows, col) ==
    LET mu == MeanOf(T, rows, col)
    IN  MeanOf(T, rows, [r \in rows |-> RMul(RSub(col[r], mu), RSub(col[r], mu))])

\* |v - mu| / sigma > 2.5 with sigma = max(sqrt(var), 0.001), squared
ExceedsThreshold(v, mu, var) ==
    LET sigma_sq == RMax(var, <<1, 1000000>>)
    IN  RGt(RMul(RSub(v, mu), RSub(v, mu)), RMul(<<25, 4>>, sigma_sq))

\* C9: in every sliding window the standard deviations of speed and carbon
\* are the population ones floored at 0.001 (so never 0), a z-score alert
\* exists for the window iff |v - mu| / sigma > 2.5 for speed or for carbon
\* (v the window's latest value), and a window whose speeds are all equal
\* and whose carbon values are all equal has no alert.
C9_ZscoreFiresIffAboveThreshold ==
    \A T \in {Telemetry} :
    \A Z \in {ZStats(T, zLatest)}, A \in {detect_zscore_anomalies(T, zLatest)} :
    \A k \in DOMAIN Z :
    \A rows \in {SlidingRows(T, k)} :
    \A speed \in {[r \in rows |-> R(r.speed)]}, carbon \in {[r \in rows |-> r.carbon_kg]},
       fired \in {\E a \in DOMAIN A : a.vehicle_id = k[1] /\ a.timestamp = k[2]} :
        /\ Z[k].std_speed_sq = RMax(VarianceOf(T, rows, speed), <<1, 1000000>>)
        /\ Z[k].std_carbon_sq = RMax(VarianceOf(T, rows, carbon), <<1, 1000000>>)
        /\ RGt(Z[k].std_speed_sq, R(0)) /\ RGt(Z[k].std_carbon_sq, R(0))
        /\ fired <=>
              \/ ExceedsThreshold(R(Z[k].latest_speed), MeanOf(T, rows, speed),
                                  VarianceOf(T, rows, speed))
              \/ ExceedsThreshold(Z[k].latest_carbon, MeanOf(T, rows, carbon),
                                  VarianceOf(T, rows, carbon))
        /\ (Cardinality({speed[r] : r \in rows}) = 1
            /\ Cardinality({carbon[r] : r \in rows}) = 1) => ~fired

\* C9, the case: one window has fired on speed and a window of several
\* records with equal values has not fired
C9_FiredAndNotFired ==
    \E T \in {Telemetry} :
    \E Z \in {ZStats(T, zLatest)}, A \in {detect_zscore_anomalies(T, zLatest)} :
        /\ \E a \in DOMAIN A : a.anomaly_type = "speed_zscore"
        /\ \E k \in DOMAIN Z :
               /\ Z[k].count >= 2
               /\ Cardinality({r.speed : r \in SlidingRows(T, k)}) = 1
               /\ Cardinality({r.carbon_kg : r \in SlidingRows(T, k)}) = 1
               /\ ~\E a \in DOMAIN A : a.vehicle_id = k[1] /\ a.timestamp = k[2]

\* C9, a second case: a window has fired on carbon alone
C9_FiredOnCarbon ==
    \E A \in {ZscoreAlerts} : \E a \in DOMAIN A : a.anomaly_type = "carbon_zscore"

\* C10: after a commit that adds one record, the latest value of every
\* sliding window that holds the record is the value of a record with the
\* greatest timestamp among the records in the window.
C10_LatestIsGreatestTimestamp ==
    [][\A T1 \in {Telemetry}, T2 \in {TelemetryOf(gps', fuel', shipLatest')} :
       \A new \in {NewRows(T1, T2)} :
          Cardinality(new) = 1 =>
              \A Z \in {ZStats(T2, zLatest')} :
              \A k \in DOMAIN Z :
              \A rows \in {SlidingRows(T2, k)} :
                  new \subseteq rows =>
                      \E r \in {x \in rows : x.timestamp = Max({y.timestamp : y \in rows})} :
                          Z[k].latest_speed = r.speed /\ Z[k].latest_carbon = r.carbon_kg]_vars

\* C10, the case: a sliding window holds records of different timestamps
C10_TwoTimestampsInWindow ==
    \E T \in {Telemetry} : \E k \in SlidingKeys(T) :
        Cardinality({r.timestamp : r \in SlidingRows(T, k)}) >= 2

-----------------------------------------------------------------------------
(* Properties of the tumbling-window reducers (streaming/windows.py).      *)

\* the snapshot of the window of telemetry row r after n more copies of r
\* reach the reducers (count, sum, avg, max, min) of the windowed table W
WindowAfter(W, r, n) ==
    LET k == <<r.vehicle_id, (r.timestamp \div 300) * 300>>
        has == k \in DOMAIN W
        cnt == IF has THEN W[k].data_points + n ELSE n
        fuel_sum == IF has THEN W[k].total_fuel + n * r.fuel_liters ELSE n * r.fuel_liters
        dist_sum == IF has THEN W[k].total_distance + n * r.distance_km
                    ELSE n * r.distance_km
        speed_sum == IF has THEN RAdd(RMul(W[k].avg_speed, R(W[k].data_points)),
                                      R(n * r.speed))
                     ELSE R(n * r.speed)
        hi == IF has THEN Max({r.speed, W[k].max_speed}) ELSE r.speed
        lo == IF has THEN Min({r.speed, W[k].min_speed}) ELSE r.speed
    IN  [vehicle_id |-> k[1], window_start |-> k[2], window_end |-> k[2] + 300,
         avg_speed |-> RDiv(speed_sum, R(cnt)),
         max_speed |-> hi, min_speed |-> lo,
         total_fuel |-> fuel_sum, total_distance |-> dist_sum, data_points |-> cnt,
         carbon_kg |-> RMul(R(fuel_sum), <<268, 100>>),
         fuel_efficiency |-> IF fuel_sum > 0 THEN RDiv(R(dist_sum), R(fuel_sum)) ELSE R(0),
         speed_variance |-> hi - lo]

\* the windowed table W after the rows ord[i..] reach it one by one, row r in
\* D[r] copies
RECURSIVE WindowsAfter(_, _, _, _)
WindowsAfter(W, D, ord, i) ==
    IF i > Len(ord) THEN W
    ELSE LET r == ord[i]
             k == <<r.vehicle_id, (r.timestamp \div 300) * 300>>
         IN  WindowsAfter([x \in DOMAIN W \cup {k} |->
                              IF x = k THEN WindowAfter(W, r, D[r]) ELSE W[x]],
                          D, ord, i + 1)

-----------------------------------------------------------------------------
(* Properties of the shipment enrichment (streaming/joins.py).             *)

\* the shipment events of vehicle v with a timestamp at or before ts
ShipmentsUpTo(S, v, ts) ==
    {x \in DOMAIN S : x.vehicle_id = v /\ x.parsed_time <= ts}

\* C12: the shipment fields of every telemetry record are those of a
\* shipment event of its vehicle with the greatest timestamp among the
\* events at or before the record's GPS timestamp, and null when there is
\* no such event.
C12_ShipmentAsOfGpsTimestamp ==
    \A T \in {Telemetry}, S \in {create_shipment_stream(shipments)} :
    \A t \in DOMAIN T :
    \A upto \in {ShipmentsUpTo(S, t.vehicle_id, t.timestamp)} :
        IF upto = {}
        THEN t.shipment_id = NULL /\ t.shipment_status = NULL /\ t.is_delayed = NULL
        ELSE \E x \in upto :
                /\ x.parsed_time = Max({y.parsed_time : y \in upto})
                /\ t.shipment_id = x.shipment_id
                /\ t.shipment_status = x.status
                /\ t.is_delayed = x.is_delayed

\* C12, the case: a telemetry record of a vehicle that has a shipment event
\* before the record's timestamp and carries it
C12_RecordWithEarlierShipment ==
    \E T \in {Telemetry}, S \in {create_shipment_stream(shipments)} :
    \E t \in DOMAIN T : \E x \in ShipmentsUpTo(S, t.vehicle_id, t.timestamp) :
        t.shipment_id = x.shipment_id

-----------------------------------------------------------------------------
(* Properties of the join condition (streaming/joins.py).                  *)

\* telemetry record t carries the GPS columns of g and the fuel columns of f
RecordOfPair(t, g, f) ==
    /\ t.vehicle_id = g.vehicle_id /\ t.timestamp = g.parsed_time
    /\ t.latitude = g.latitude /\ t.longitude = g.longitude /\ t.speed = g.speed
    /\ t.fuel_liters = f.fuel_liters /\ t.distance_km = f.distance_km
    /\ t.fuel_type = f.fuel_type

\* C13: every telemetry record is the record of a GPS event and a fuel event
\* of the same vehicle at most 30 s apart, a pair exactly 30 s apart has its
\* record, and a GPS event with no fuel event within 30 s has no record.
C13_RecordOnlyForPairInTolerance ==
    \A T \in {Telemetry}, G \in {create_gps_stream(gps)}, F \in {create_fuel_stream(fuel)} :
        /\ \A t \in DOMAIN T : \E g \in DOMAIN G : \E f \in FuelInTolerance(F, g) :
               RecordOfPair(t, g, f)
        /\ \A g \in DOMAIN G :
               /\ \A f \in FuelInTolerance(F, g) : \E t \in DOMAIN T : RecordOfPair(t, g, f)
               /\ FuelInTolerance(F, g) = {} => RecordsOf(T, g) = {}
        /\ BagSize(T) <= BagSize(G) * BagSize(F)

\* C13, the case: one GPS event has a fuel event exactly 30 s away and a
\* record, another has a fuel event of its vehicle 50 s away only and none
C13_AtAndBeyondTolerance ==
    \E T \in {Telemetry}, G \in {create_gps_stream(gps)}, F \in {create_fuel_stream(fuel)} :
        /\ \E g \in DOMAIN G : \E f \in DOMAIN F :
               /\ f.vehicle_id = g.vehicle_id /\ f.parsed_time - g.parsed_time = 30
               /\ \E t \in DOMAIN T : RecordOfPair(t, g, f)
        /\ \E g \in DOMAIN G :
               /\ \E f \in DOMAIN F :
                      f.vehicle_id = g.vehicle_id /\ f.parsed_time - g.parsed_time = 50
               /\ FuelInTolerance(F, g) = {}
               /\ RecordsOf(T, g) = {}

\* C14: a GPS event and a fuel event of one vehicle within the tolerance have
\* their telemetry record also when the vehicle has no shipment event, and
\* the record's shipment_id, shipment_status and is_delayed are then null.
C14_NoShipmentGivesNullFields ==
    \A T \in {Telemetry}, G \in {create_gps_stream(gps)}, F \in {create_fuel_stream(fuel)} :
    \A g \in DOMAIN G : \A f \in FuelInTolerance(F, g) :
        (\A x \in DOMAIN shipments : x.vehicle_id # g.vehicle_id) =>
            /\ \E t \in DOMAIN T : RecordOfPair(t, g, f)
            /\ \A t \in DOMAIN T :
                   RecordOfPair(t, g, f) =>
                       /\ t.shipment_id = NULL
                       /\ t.shipment_status = NULL
                       /\ t.is_delayed = NULL

\* C14, the case: shipment events have come, and a vehicle with none of them
\* has a telemetry record with null shipment fields
C14_RecordWithoutShipment ==
    /\ shipments # EmptyBag
    /\ \E T \in {Telemetry} : \E t \in DOMAIN T :
           /\ \A x \in DOMAIN shipments : x.vehicle_id # t.vehicle_id
           /\ t.shipment_id = NULL

-----------------------------------------------------------------------------
(* Properties of the vehicle_states table (state_machine/vehicle_state.py). *)

\* the rows of vehicle v in the table VS, keyed like the windowed table
RowsOfVehicle(VS, v) == {k \in DOMAIN VS : VS[k].vehicle_id = v}

\* C15: vehicle_states holds exactly one row for every vehicle that has
\* window data, however many tumbling windows the vehicle has.
C15_OneStateRowPerVehicle ==
    \A W \in {Windowed}, VS \in {VehicleStates} :
    \A v \in {k[1] : k \in DOMAIN W} : Cardinality(RowsOfVehicle(VS, v)) = 1

\* C15, the case: a vehicle has two tumbling windows
C15_TwoWindowsOfOneVehicle ==
    \E W \in {Windowed} : \E k1, k2 \in DOMAIN W : k1[1] = k2[1] /\ k1[2] # k2[2]

\* C15, a second case: a vehicle has two rows with different current_state
C15_TwoStatesAtOnce ==
    \E VS \in {VehicleStates} : \E k1, k2 \in DOMAIN VS :
        VS[k1].vehicle_id = VS[k2].vehicle_id /\ VS[k1].current_state # VS[k2].current_state

-----------------------------------------------------------------------------
(* Properties of the risk score (services/risk_scoring.py).                *)

\* 0 <= x <= 100
InPercentRange(x) == RGe(x, R(0)) /\ RLe(x, R(100))

\* C16: for every vehicle each of the four impacts lies in [0,100], and
\* risk_score = 0.35 alert + 0.25 efficiency + 0.25 carbon + 0.15 status
\* lies in [0,100].
C16_ImpactsAndRiskInRange ==
    \A RS \in {RiskScores} : \A v \in DOMAIN RS : \A row \in {RS[v]} :
        /\ InPercentRange(row.alert_impact)
        /\ InPercentRange(row.efficiency_impact)
        /\ InPercentRange(row.carbon_impact)
        /\ InPercentRange(row.status_impact)
        /\ row.risk_score =
              RAdd(RAdd(RMul(<<35, 100>>, row.alert_impact),
                        RMul(<<25, 100>>, row.efficiency_impact)),
                   RAdd(RMul(<<25, 100>>, row.carbon_impact),
                        RMul(<<15, 100>>, row.status_impact)))
        /\ InPercentRange(row.risk_score)

\* C16, the case: a vehicle with a negative average carbon has a risk row
C16_NegativeCarbonScored ==
    \E RS \in {RiskScores} : \E v \in DOMAIN RS : RLt(RS[v].avg_carbon_kg, R(0))

\* C16, a second case: a risk score below 0
C16_NegativeRiskScore ==
    \E RS \in {RiskScores} : \E v \in DOMAIN RS : RLt(RS[v].risk_score, R(0))

\* the start of the current (latest) tumbling window of vehicle v
CurrentWindowStart(W, v) == Max({k[2] : k \in {x \in DOMAIN W : x[1] = v}})

\* the number of alerts of vehicle v in the alert table A whose timestamp
\* lies in the tumbling window that starts at ws
AlertsInWindow(A, v, ws) ==
    SumFn([a \in {x \in DOMAIN A : /\ x.vehicle_id = v
                                   /\ ws <= x.timestamp
                                   /\ x.timestamp < ws + 300} |-> A[a]])

\* C17: the alert count of a vehicle, in its risk row (total_alerts, feeding
\* alert_impact) and as the classifier's alert_count, is the number of the
\* vehicle's alerts in its current tumbling window.
C17_AlertCountIsOfCurrentWindow ==
    \A W \in {Windowed}, RS \in {RiskScores}, C \in {Combined} :
    \A TA \in {ThresholdAlerts}, ZA \in {ZscoreAlerts}, RA \in {RouteAlerts} :
    \A v \in DOMAIN RS :
    \A ws \in {CurrentWindowStart(W, v)} :
    \A n \in {AlertsInWindow(TA, v, ws) + AlertsInWindow(ZA, v, ws)
              + AlertsInWindow(RA, v, ws)} :
        /\ RS[v].total_alerts = n
        /\ RS[v].alert_impact = RMin(R(100), R(20 * n))
        /\ \A k \in DOMAIN C : k[1] = v => C[k].alert_count = n

\* C17, the case: a vehicle has an alert in an earlier tumbling window and
\* none in its current one
C17_AlertsOnlyInEarlierWindow ==
    \E W \in {Windowed}, TA \in {ThresholdAlerts}, ZA \in {ZscoreAlerts}, RA \in {RouteAlerts} :
    \E v \in {k[1] : k \in DOMAIN W} :
    \E ws \in {CurrentWindowStart(W, v)} :
        /\ AlertsInWindow(TA, v, ws) + AlertsInWindow(ZA, v, ws)
           + AlertsInWindow(RA, v, ws) = 0
        /\ AlertCount(TA, v) + AlertCount(ZA, v) + AlertCount(RA, v) > 0

-----------------------------------------------------------------------------
(* Properties of the fleet report (reporting/fleet_report.py).             *)

\* C18: every entry of the report history before a step is in the history,
\* unchanged, after the step (an emission adds an entry and takes none away).
C18_ReportHistoryAppendOnly ==
    [][\A H1 \in {ReportHistory},
          H2 \in {FleetReportsOf(TelemetryOf(gps', fuel', shipLatest'), zLatest')[2]} :
          BagLe(H1, H2)]_vars

\* C18, the case: a report has been emitted to the history
C18_ReportEmitted == ReportHistory # EmptyBag

\* C19: the report's total_alerts is the sum over the vehicles with window
\* data of the vehicle's alert count, each vehicle taken once, and its
\* active_vehicles is the number of those vehicles.
C19_FleetTotalsPerVehicle ==
    \A W \in {Windowed}, RS \in {RiskScores}, L \in {LatestReport} :
    \A vs \in {{k[1] : k \in DOMAIN W}} :
    \A r \in DOMAIN L :
        /\ r.total_alerts = SumFn([v \in vs |-> RS[v].total_alerts])
        /\ r.active_vehicles = Cardinality(vs)

\* C19, the case: a report over two vehicles, one of them with alerts
C19_TwoVehiclesWithAlerts ==
    \E L \in {LatestReport} : \E r \in DOMAIN L :
        r.active_vehicles = 2 /\ r.total_alerts >= 1

-----------------------------------------------------------------------------
(* Per-key isolation (streaming/joins.py, streaming/windows.py,            *)
(* services/risk_scoring.py).                                              *)

\* the rows of vehicle v in a bag of records with a vehicle_id column
BagOfVehicle(B, v) == BagFilter(B, [r \in DOMAIN B |-> r.vehicle_id = v])

\* the rows of vehicle v in a table keyed by <<vehicle_id, window_start>>
KeyedOfVehicle(X, v) == Table([k \in {x \in DOMAIN X : x[1] = v} |-> X[k]])

\* the per-vehicle derived views of vehicle v, given the telemetry table T
\* and the state ZL of the sliding-window latest reducers
ViewsOfVehicle(T, ZL, v) ==
    LET W == compute_rolling_windows(T)
        TA == detect_threshold_anomalies(T)
        ZA == detect_zscore_anomalies(T, ZL)
        RA == detect_route_deviations(T)
        RS == compute_risk_scores(W, TA, ZA, RA)
    IN  [telemetry |-> BagOfVehicle(T, v),
         windowed |-> KeyedOfVehicle(W, v),
         sliding |-> KeyedOfVehicle(ZStats(T, ZL), v),
         micro |-> KeyedOfVehicle(detect_acceleration_spikes(T), v),
         threshold_alerts |-> BagOfVehicle(TA, v),
         zscore_alerts |-> BagOfVehicle(ZA, v),
         route_alerts |-> BagOfVehicle(RA, v),
         risk |-> IF v \in DOMAIN RS THEN <<RS[v]>> ELSE <<>>,
         state |-> KeyedOfVehicle(compute_vehicle_states(W, RS, RA), v),
         predictions |-> KeyedOfVehicle(PredictionBase(W, RS), v)]

\* C20: a step that ingests no GPS, fuel or shipment event of vehicle v (it
\* ingests an event of another vehicle) leaves every per-vehicle view of v
\* as it was.
C20_PerVehicleIsolation ==
    [][\A v \in Vehicles :
          (/\ BagOfVehicle(gps', v) = BagOfVehicle(gps, v)
           /\ BagOfVehicle(fuel', v) = BagOfVehicle(fuel, v)
           /\ BagOfVehicle(shipments', v) = BagOfVehicle(shipments, v))
          => \A T1 \in {Telemetry}, T2 \in {TelemetryOf(gps', fuel', shipLatest')} :
                 ViewsOfVehicle(T2, zLatest', v) = ViewsOfVehicle(T1, zLatest, v)]_vars

\* C20, the case: two vehicles have telemetry records, windows and risk
\* scores, and one of them has an alert
C20_TwoVehiclesWithViews ==
    \E RS \in {RiskScores} :
        /\ \A v \in Vehicles : v \in DOMAIN RS
        /\ \E v \in Vehicles : RS[v].total_alerts >= 1

-----------------------------------------------------------------------------
(* Order of the window snapshots (streaming/windows.py).                   *)

\* C21: a tumbling-window snapshot that a step creates for a vehicle does
\* not start before a snapshot the vehicle already has.
C21_WindowStartsNonDecreasing ==
    [][\A W1 \in {Windowed},
          W2 \in {compute_rolling_windows(TelemetryOf(gps', fuel', shipLatest'))} :
          \A k \in DOMAIN W2 \ DOMAIN W1 :
              \A j \in DOMAIN W1 : j[1] = k[1] => j[2] <= k[2]]_vars

\* C21, the case: a vehicle has snapshots of two tumbling windows
C21_VehicleWithTwoWindows ==
    \E W \in {Windowed} : \E k, j \in DOMAIN W : k[1] = j[1] /\ k[2] < j[2]

-----------------------------------------------------------------------------
(* Rows with values out of range (ingestion/gps_stream.py,                 *)
(* ingestion/fuel_stream.py).                                              *)

\* the rows of a feed table whose values are in range
InRangeGps(G) == BagFilter(G, [r \in DOMAIN G |-> r.speed >= 0])
InRangeFuel(F) == BagFilter(F, [r \in DOMAIN F |-> r.fuel_liters >= 0 /\ r.distance_km >= 0])

\* C22: a row with a value out of range (negative speed, negative
\* fuel_liters) is dropped at ingestion: the telemetry records and the window
\* snapshots are the ones of the rows in range.
C22_OutOfRangeRowsDropped ==
    \A T \in {Telemetry}, TV \in {TelemetryOf(InRangeGps(gps), InRangeFuel(fuel), shipLatest)} :
        /\ T = TV
        /\ compute_rolling_windows(T) = compute_rolling_windows(TV)

\* C22, the case: a fuel row of negative litres was ingested, and a GPS row
\* within the join tolerance of it
C22_NegativeFuelRowIngested ==
    \E f \in DOMAIN create_fuel_stream(fuel) : \E g \in DOMAIN create_gps_stream(gps) :
        f.fuel_liters < 0 /\ IntervalMatch(g, f)

-----------------------------------------------------------------------------
(* The threshold detector on records at its limits (anomalies/threshold.py) *)

MaxThresholdEvents == 4     \* rows ingested in a run of SpecThreshold

\* the row of speed 141 is at the start of the second tumbling window
ThresholdGpsFeed ==
    {GPSSchema("V-101", OnRouteLat, RouteLon, speed, <<4, 50>>) : speed \in {120, 121, 140}}
    \cup {GPSSchema("V-101", OnRouteLat, RouteLon, 141, <<5, 0>>)}

\* efficiencies 3.0, 2.0, 0 (no fuel) and 12.5 km/l
ThresholdFuelFeed ==
    {FuelSchema("V-101", p[1], p[2], "diesel", <<5, 0>>) :
        p \in {<<1, 3>>, <<1, 2>>, <<0, 5>>, <<2, 25>>}}

ThresholdGpsEvent == Ingested < MaxThresholdEvents /\ \E r \in ThresholdGpsFeed : IngestGps(r)
ThresholdFuelEvent == Ingested < MaxThresholdEvents /\ \E r \in ThresholdFuelFeed : IngestFuel(r)

NextThreshold == ThresholdGpsEvent \/ ThresholdFuelEvent

SpecThreshold == Init /\ [][NextThreshold]_vars

\* the alerts made of telemetry record t
AlertsOfRecord(A, t) ==
    {a \in DOMAIN A : /\ a.vehicle_id = t.vehicle_id /\ a.timestamp = t.timestamp
                      /\ a.speed = t.speed /\ a.fuel_efficiency = t.fuel_efficiency}

\* C23: a telemetry record has a threshold alert if and only if speed > 120
\* or 0 < fuel_efficiency < 3.0; there are as many alerts as such records;
\* an alert of a record with speed > 120 is a speed alert, critical when
\* speed > 140 and high otherwise; any other alert is an efficiency alert of
\* severity medium.
C23_ThresholdAlertRule ==
    \A T \in {Telemetry} : \A A \in {detect_threshold_anomalies(T)} :
        /\ \A t \in DOMAIN T :
              (AlertsOfRecord(A, t) # {}) <=>
                  (\/ t.speed > 120
                   \/ RGt(t.fuel_efficiency, R(0)) /\ RLt(t.fuel_efficiency, R(3)))
        /\ BagSize(A) = BagSize(BagFilter(T, [t \in DOMAIN T |-> AlertsOfRecord(A, t) # {}]))
        /\ \A a \in DOMAIN A :
              IF a.speed > 120
              THEN /\ a.anomaly_type = "speed_threshold"
                   /\ a.severity = (IF a.speed > 140 THEN "critical" ELSE "high")
              ELSE /\ a.anomaly_type = "efficiency_threshold"
                   /\ a.severity = "medium"

\* C23, the case: records at speed 120 (one without alert, one with an
\* efficiency alert), a record at speed 140 with a high alert and a record
\* with efficiency exactly 3.0
C23_RecordsAtTheLimits ==
    \E T \in {Telemetry} : \E A \in {detect_threshold_anomalies(T)} :
        /\ \E t \in DOMAIN T : t.speed = 120 /\ t.fuel_efficiency = R(3)
                               /\ AlertsOfRecord(A, t) = {}
        /\ \E a \in DOMAIN A : a.speed = 120 /\ a.severity = "medium"
        /\ \E a \in DOMAIN A : a.speed = 140 /\ a.severity = "high"

-----------------------------------------------------------------------------
(* The route-deviation detector on records around its limits               *)
(* (anomalies/route_deviation.py).                                         *)

MaxRouteEvents == 4     \* rows ingested in a run of SpecRoute

\* latitudes north of the reference point of V-101 (also the default), in
\* units of 0.0001 degree = 0.0111195 km: 4.993, 5.004, 9.996, 10.008,
\* 14.989, 15.0002 and 15.100 km
RouteOffsets == {0, 449, 450, 899, 900, 1348, 1349, 1358}

\* V-999 has no entry in EXPECTED_ROUTES
RouteGpsFeed ==
    {GPSSchema("V-101", OnRouteLat + d, RouteLon, 60, <<4, 50>>) : d \in RouteOffsets}
    \cup {GPSSchema("V-999", OnRouteLat + d, RouteLon, 60, <<4, 50>>) : d \in {0, 449, 450}}

RouteFuelFeed == {FuelSchema(v, 3, 25, "diesel", <<5, 0>>) : v \in Vehicles}

RouteGpsEvent == Ingested < MaxRouteEvents /\ \E r \in RouteGpsFeed : IngestGps(r)
RouteFuelEvent == Ingested < MaxRouteEvents /\ \E r \in RouteFuelFeed : IngestFuel(r)

NextRoute == RouteGpsEvent \/ RouteFuelEvent

SpecRoute == Init /\ [][NextRoute]_vars

\* the route alerts made of telemetry record t
RouteAlertsOfRecord(A, t) ==
    {a \in DOMAIN A : /\ a.vehicle_id = t.vehicle_id /\ a.timestamp = t.timestamp
                      /\ a.latitude = t.latitude /\ a.longitude = t.longitude}

\* the distance in km of record t from the point (lat, lon) on its meridian
KmFrom(t, lat, lon) == haversine_km(t.latitude, t.longitude, lat, lon)

\* C24: a telemetry record of a vehicle with a reference point has a route
\* alert if and only if its distance d from that point is > 5 km; there are
\* as many alerts as such records; the severity is critical if d > 15, high
\* if 10 < d <= 15 and medium if 5 < d <= 10.
C24_RouteAlertRule ==
    \A T \in {Telemetry} : \A A \in {detect_route_deviations(T)} :
        /\ \A t \in {x \in DOMAIN T : x.vehicle_id \in DOMAIN EXPECTED_ROUTES} :
              \A d \in {KmFrom(t, EXPECTED_ROUTES[t.vehicle_id][1],
                               EXPECTED_ROUTES[t.vehicle_id][2])} :
                  /\ (RouteAlertsOfRecord(A, t) # {}) <=> RGt(d, R(5))
                  /\ \A a \in RouteAlertsOfRecord(A, t) :
                        /\ a.deviation_km = d
                        /\ a.anomaly_type = "route_deviation"
                        /\ a.severity = (IF RGt(d, R(15)) THEN "critical"
                                         ELSE IF RGt(d, R(10)) THEN "high" ELSE "medium")
        /\ BagSize(A) =
              BagSize(BagFilter(T, [t \in DOMAIN T |-> RouteAlertsOfRecord(A, t) # {}]))

\* C24, the case: records at 4.99 km (no alert), 5.004 km (medium) and
\* 15.0002 km (critical) from the reference point
C24_RecordsAroundTheLimits ==
    \E T \in {Telemetry} : \E A \in {detect_route_deviations(T)} :
        /\ \E t \in DOMAIN T : t.latitude = OnRouteLat + 449 /\ RouteAlertsOfRecord(A, t) = {}
        /\ \E a \in DOMAIN A : a.latitude = OnRouteLat + 450 /\ a.severity = "medium"
        /\ \E a \in DOMAIN A : a.latitude = OnRouteLat + 1349 /\ a.severity = "critical"

\* C29: a telemetry record of a vehicle without an entry in EXPECTED_ROUTES
\* is measured from the default point (40.7128, -74.0060): it has a route
\* alert if and only if its distance from that point is > 5 km, and the alert
\* carries that distance and is there once per copy of the record.
C29_DefaultReference ==
    \A T \in {Telemetry} : \A A \in {detect_route_deviations(T)} :
        \A t \in {x \in DOMAIN T : x.vehicle_id \notin DOMAIN EXPECTED_ROUTES} :
            \A d \in {KmFrom(t, 407128, -740060)} :
                /\ (RouteAlertsOfRecord(A, t) # {}) <=> RGt(d, R(5))
                /\ \A a \in RouteAlertsOfRecord(A, t) : a.deviation_km = d /\ A[a] = T[t]

\* C29, the case: records of V-999 at 4.99 km (no alert) and at 5.004 km
\* (alert) from the default point
C29_UnknownVehicleAroundTheLimit ==
    \E T \in {Telemetry} : \E A \in {detect_route_deviations(T)} :
        /\ \E t \in DOMAIN T : /\ t.vehicle_id \notin DOMAIN EXPECTED_ROUTES
                               /\ t.latitude = OnRouteLat + 449
                               /\ RouteAlertsOfRecord(A, t) = {}
        /\ \E a \in DOMAIN A : /\ a.vehicle_id \notin DOMAIN EXPECTED_ROUTES
                               /\ a.latitude = OnRouteLat + 450

-----------------------------------------------------------------------------
(* The forecast functions called directly (forecasting/predictor.py).      *)

MaxPredictorAlerts == 5

ForecastCarbonInputs == {R(-50), R(0), <<67, 25>>, R(10), R(100), R(300)}
ForecastEfficiencyInputs == {R(-2), R(0), R(3), R(5), R(8)}
ForecastSpeedInputs == {R(-10), R(0), R(60), R(90), R(150), R(1000)}
ForecastRiskInputs == {R(-20), R(0), <<81, 2>>, R(100), R(250)}
\* litres per window; 0.04, 0.05 and 0.06 are rates of 0.008, 0.01 and 0.012
ForecastFuelInputs == {R(-5), R(0), <<1, 25>>, <<1, 20>>, <<3, 50>>, R(3), R(7), R(8), R(1000)}

PredictCarbon(avg_carbon_kg, avg_efficiency, avg_speed) ==
    /\ call = NoCall
    /\ call' = [fn |-> "_predict_carbon_10min", avg_carbon_kg |-> avg_carbon_kg,
                avg_efficiency |-> avg_efficiency, avg_speed |-> avg_speed,
                result |-> _predict_carbon_10min(avg_carbon_kg, avg_efficiency, avg_speed)]
    /\ UNCHANGED <<gps, fuel, shipments, shipLatest, zLatest, lastRunState, stateChanges, _crisis_state>>

PredictRisk(current_risk, alert_count, avg_carbon_kg, avg_speed) ==
    /\ call = NoCall
    /\ call' = [fn |-> "_predict_risk_score", current_risk |-> current_risk,
                alert_count |-> alert_count, avg_carbon_kg |-> avg_carbon_kg,
                avg_speed |-> avg_speed,
                result |-> _predict_risk_score(current_risk, alert_count, avg_carbon_kg,
                                               avg_speed)]
    /\ UNCHANGED <<gps, fuel, shipments, shipLatest, zLatest, lastRunState, stateChanges, _crisis_state>>

FuelExhaustion(avg_fuel_consumed, avg_efficiency, avg_speed) ==
    /\ call = NoCall
    /\ call' = [fn |-> "_fuel_exhaustion_minutes", avg_fuel_consumed |-> avg_fuel_consumed,
                avg_efficiency |-> avg_efficiency, avg_speed |-> avg_speed,
                result |-> _fuel_exhaustion_minutes(avg_fuel_consumed, avg_efficiency,
                                                    avg_speed)]
    /\ UNCHANGED <<gps, fuel, shipments, shipLatest, zLatest, lastRunState, stateChanges, _crisis_state>>

PredictCarbonCall ==
    \E c \in ForecastCarbonInputs, e \in ForecastEfficiencyInputs, s \in ForecastSpeedInputs :
        PredictCarbon(c, e, s)

PredictRiskCall ==
    \E r \in ForecastRiskInputs, a \in 0 .. MaxPredictorAlerts, c \in ForecastCarbonInputs,
       s \in ForecastSpeedInputs : PredictRisk(r, a, c, s)

FuelExhaustionCall ==
    \E f \in ForecastFuelInputs, e \in ForecastEfficiencyInputs, s \in ForecastSpeedInputs :
        FuelExhaustion(f, e, s)

NextPredictor == PredictCarbonCall \/ PredictRiskCall \/ FuelExhaustionCall

SpecPredictor == Init /\ [][NextPredictor]_vars

C25_RateUnderTheLimit ==
    /\ call.fn = "_fuel_exhaustion_minutes"
    /\ call.avg_fuel_consumed = <<1, 25>>
    /\ call.result = R(-1)

\* C26: predicted_carbon_10min lies in [0, 200] and predicted_risk_score in
\* [0, 100], whatever the sign and size of the inputs.
C26_ForecastsInRange ==
    /\ call.fn = "_predict_carbon_10min" =>
          RGe(call.result, R(0)) /\ RLe(call.result, R(200))
    /\ call.fn = "_predict_risk_score" =>
          RGe(call.result, R(0)) /\ RLe(call.result, R(100))

\* C26, the case: a carbon forecast of a negative carbon amount
C26_NegativeCarbonForecast ==
    /\ call.fn = "_predict_carbon_10min"
    /\ RLt(call.avg_carbon_kg, R(0))
    /\ call.result = R(0)

\* C26, the case: a risk forecast whose sum is over 100
C26_RiskForecastAtTheTop ==
    /\ call.fn = "_predict_risk_score"
    /\ call.current_risk = R(250)
    /\ call.result = R(100)

-----------------------------------------------------------------------------
(* Fleet health in the reports (reporting/fleet_report.py).                *)

\* C27: in every row of latest_report and of report_history, fleet_health is
\* critical if and only if the row's total_alerts > 10, degraded if and only
\* if 5 < total_alerts <= 10, and healthy if and only if total_alerts <= 5.
C27_FleetHealthOfTotalAlerts ==
    \A RP \in {FleetReportsOf(Telemetry, zLatest)} :
    \A r \in DOMAIN RP[1] \cup DOMAIN RP[2] :
        /\ r.fleet_health \in {"critical", "degraded", "healthy"}
        /\ (r.fleet_health = "critical") <=> r.total_alerts > 10
        /\ (r.fleet_health = "degraded") <=> (5 < r.total_alerts /\ r.total_alerts <= 10)
        /\ (r.fleet_health = "healthy") <=> r.total_alerts <= 5

\* C27, the case: a report with more than 10 alerts
C27_CriticalReport ==
    \E r \in DOMAIN LatestReport : r.total_alerts > 10 /\ r.fleet_health = "critical"

\* C27, the case: reports with exactly 10 and with exactly 5 alerts
C27_ReportOfTenAlerts ==
    \E r \in DOMAIN LatestReport : r.total_alerts = 10 /\ r.fleet_health = "degraded"

C27_ReportOfFiveAlerts ==
    \E r \in DOMAIN LatestReport : r.total_alerts = 5 /\ r.fleet_health = "healthy"

-----------------------------------------------------------------------------
(* Tumbling windows partition the records (streaming/windows.py).          *)

\* the tumbling windows of W whose interval holds telemetry record t
WindowsHolding(W, t) ==
    {k \in DOMAIN W : /\ W[k].vehicle_id = t.vehicle_id
                      /\ W[k].window_start <= t.timestamp
                      /\ t.timestamp < W[k].window_end}

\* C28: the tumbling windows of a vehicle do not overlap; every telemetry
\* record lies in the interval of exactly one of them, which counts it; and
\* the data_points of a vehicle's windows add up to the number of its records.
C28_TumblingWindowsPartition ==
    \A T \in {Telemetry} : \A W \in {compute_rolling_windows(T)} :
        /\ \A k, j \in DOMAIN W :
              (k # j /\ W[k].vehicle_id = W[j].vehicle_id) =>
                  (W[k].window_end <= W[j].window_start
                   \/ W[j].window_end <= W[k].window_start)
        /\ \A t \in DOMAIN T : Cardinality(WindowsHolding(W, t)) = 1
        /\ \A k \in DOMAIN W :
              W[k].data_points =
                  BagSize(BagFilter(T, [t \in DOMAIN T |-> k \in WindowsHolding(W, t)]))
        /\ \A v \in Vehicles :
              SumFn([k \in {x \in DOMAIN W : W[x].vehicle_id = v} |-> W[k].data_points])
                  = BagSize(BagFilter(T, [t \in DOMAIN T |-> t.vehicle_id = v]))

\* C28, the case: a vehicle has a record at the very start of a window and
\* records in the window before it
C28_RecordAtAWindowStart ==
    \E T \in {Telemetry} : \E W \in {compute_rolling_windows(T)} :
    \E k, j \in DOMAIN W :
        /\ k[1] = j[1]
        /\ W[k].window_end = W[j].window_start
        /\ W[k].data_points >= 2
        /\ \E t \in DOMAIN T : t.vehicle_id = j[1] /\ t.timestamp = W[j].window_start

-----------------------------------------------------------------------------
(* Division guards (features/efficiency.py, streaming/windows.py,          *)
(* anomalies/threshold.py).                                                *)

\* C30: a telemetry record with fuel_liters <= 0 has fuel_efficiency 0 and no
\* efficiency_threshold alert; a tumbling window with total_fuel <= 0 has
\* fuel_efficiency 0; every other record and window has the quotient
\* distance / fuel.
C30_ZeroEfficiencyWithoutFuel ==
    \A T \in {Telemetry} :
    \A W \in {compute_rolling_windows(T)}, A \in {detect_threshold_anomalies(T)} :
        /\ \A t \in DOMAIN T :
              IF t.fuel_liters <= 0
              THEN /\ t.fuel_efficiency = R(0)
                   /\ \A a \in AlertsOfRecord(A, t) : a.anomaly_type # "efficiency_threshold"
              ELSE t.fuel_efficiency = RDiv(R(t.distance_km), R(t.fuel_liters))
        /\ \A k \in DOMAIN W :
              IF W[k].total_fuel <= 0
              THEN W[k].fuel_efficiency = R(0)
              ELSE W[k].fuel_efficiency = RDiv(R(W[k].total_distance), R(W[k].total_fuel))

\* C30, the case: a record without fuel, a record of negative fuel that has
\* a speed alert, and a window whose total fuel is negative
C30_RecordsWithoutFuel ==
    \E T \in {Telemetry} :
    \E W \in {compute_rolling_windows(T)}, A \in {detect_threshold_anomalies(T)} :
        /\ \E t \in DOMAIN T : t.fuel_liters = 0 /\ t.distance_km > 0
        /\ \E t \in DOMAIN T : t.fuel_liters < 0 /\ AlertsOfRecord(A, t) # {}
        /\ \E k \in DOMAIN W : W[k].total_fuel < 0

\* C30, the case: a window whose total fuel is 0 and whose distance is not
C30_WindowWithoutFuel ==
    \E W \in {Windowed} : \E k \in DOMAIN W :
        W[k].total_fuel = 0 /\ W[k].total_distance > 0

-----------------------------------------------------------------------------
(* A run that drives the risk score to its top (services/risk_scoring.py,  *)
(* state_machine/vehicle_state.py).                                        *)

MaxRiskEvents == 6      \* rows ingested in a run of SpecRisk

\* two rows 15.0002 km off route at speeds 60 and 100, a row on route at
\* speed 130, and a calm row on route in the next tumbling window
RiskGpsFeed ==
    {GPSSchema("V-101", OnRouteLat + 1349, RouteLon, 60, <<4, 50>>),
     GPSSchema("V-101", OnRouteLat + 1349, RouteLon, 100, <<4, 50>>),
     GPSSchema("V-101", OnRouteLat, RouteLon, 130, <<4, 50>>),
     GPSSchema("V-101", OnRouteLat, RouteLon, 60, <<5, 40>>)}

\* 3.5 km/l at 26.8 kg a record, within 30 s of the first three GPS rows;
\* 8.33 km/l at 8.04 kg, within 30 s of the last GPS row only
RiskFuelFeed ==
    {FuelSchema("V-101", 10, 35, "diesel", <<5, 0>>),
     FuelSchema("V-101", 3, 25, "diesel", <<5, 50>>)}

RiskGpsEvent == Ingested < MaxRiskEvents /\ \E r \in RiskGpsFeed : IngestGps(r)
RiskFuelEvent == Ingested < MaxRiskEvents /\ \E r \in RiskFuelFeed : IngestFuel(r)

NextRisk == RiskGpsEvent \/ RiskFuelEvent

SpecRisk == Init /\ [][NextRisk]_vars

\* C31: a vehicle whose risk_score is over 80 has at least 3 alerts; with at
\* most 2 alerts the score is at most 75.25; and every row of vehicle_states
\* in state CRITICAL_RISK is of a vehicle with at least 3 alerts.
C31_HighRiskNeedsThreeAlerts ==
    \A T \in {Telemetry} :
    \A W \in {compute_rolling_windows(T)}, RA \in {detect_route_deviations(T)} :
    \A RS \in {compute_risk_scores(W, detect_threshold_anomalies(T),
                                   detect_zscore_anomalies(T, zLatest), RA)} :
        /\ \A v \in DOMAIN RS :
              /\ RGt(RS[v].risk_score, R(80)) => RS[v].total_alerts >= 3
              /\ RS[v].total_alerts <= 2 => RLe(RS[v].risk_score, <<301, 4>>)
        /\ \A VS \in {compute_vehicle_states(W, RS, RA)} :
              \A k \in DOMAIN VS :
                  VS[k].current_state = "CRITICAL_RISK" => RS[k[1]].total_alerts >= 3

\* C31, the case: a vehicle with a risk score over 80
C31_RiskScoreOverEighty ==
    \E v \in DOMAIN RiskScores : RGt(RiskScores[v].risk_score, R(80))

\* C31, the case: a vehicle with 2 alerts and the score 75.25
C31_TopScoreWithTwoAlerts ==
    \E v \in DOMAIN RiskScores :
        RiskScores[v].total_alerts = 2 /\ RiskScores[v].risk_score = <<301, 4>>

\* the threshold and route alerts of vehicle v among the records T
ThresholdAndRouteCount(T, v) ==
    AlertCount(detect_threshold_anomalies(T), v) + AlertCount(detect_route_deviations(T), v)

-----------------------------------------------------------------------------
(* One alert per record and per window (anomalies/threshold.py,            *)
(* anomalies/zscore.py).                                                   *)

\* the telemetry records that give the same alert columns as record t
RecordsLike(T, t) ==
    {x \in DOMAIN T : /\ x.vehicle_id = t.vehicle_id /\ x.timestamp = t.timestamp
                      /\ x.speed = t.speed /\ x.fuel_efficiency = t.fuel_efficiency}

\* C33: the threshold alerts of a record are never more than the record's
\* copies and all of one type; a record with speed > 120 and
\* 0 < fuel_efficiency < 3.0 has one alert, of type speed_threshold with the
\* severity of its speed, and no efficiency_threshold alert.
C33_OneThresholdAlertPerRecord ==
    \A T \in {Telemetry} : \A A \in {detect_threshold_anomalies(T)} :
    \A t \in DOMAIN T : \A as \in {AlertsOfRecord(A, t)} :
        /\ Cardinality(as) <= 1
        /\ SumFn([a \in as |-> A[a]]) <= SumFn([x \in RecordsLike(T, t) |-> T[x]])
        /\ (/\ t.speed > 120
            /\ RGt(t.fuel_efficiency, R(0))
            /\ RLt(t.fuel_efficiency, R(3))) =>
               /\ SumFn([a \in as |-> A[a]]) = SumFn([x \in RecordsLike(T, t) |-> T[x]])
               /\ \A a \in as :
                     /\ a.anomaly_type = "speed_threshold"
                     /\ a.severity = (IF t.speed > 140 THEN "critical" ELSE "high")

\* C33, the case: records over the speed limit and under the efficiency
\* limit, one at speed 141 and one at a speed up to 140
C33_RecordOverBothLimits ==
    \E T \in {Telemetry} : \E A \in {detect_threshold_anomalies(T)} :
        /\ \E t \in DOMAIN T :
              /\ t.speed > 140 /\ t.fuel_efficiency = R(2)
              /\ AlertsOfRecord(A, t) # {}
        /\ \E t \in DOMAIN T :
              /\ t.speed > 120 /\ t.speed <= 140 /\ t.fuel_efficiency = R(2)
              /\ AlertsOfRecord(A, t) # {}

\* A run in which one record is an outlier in speed and in carbon at once.

MaxBothEvents == 8      \* rows ingested in a run of SpecBoth

BothGpsFeed ==
    {GPSSchema("V-101", OnRouteLat, RouteLon, 150, <<4, 40>>),
     GPSSchema("V-101", OnRouteLat, RouteLon, 50, <<5, 30>>)}

\* rows of 4 and of 3 litres within 30 s of the first GPS row only, and a
\* row of 3 litres within 30 s of the second only
BothFuelFeed ==
    {FuelSchema("V-101", 4, 30, "diesel", <<4, 20>>),
     FuelSchema("V-101", 3, 25, "diesel", <<4, 30>>),
     FuelSchema("V-101", 3, 25, "diesel", <<5, 50>>)}

BothGpsEvent == Ingested < MaxBothEvents /\ \E r \in BothGpsFeed : IngestGps(r)
BothFuelEvent == Ingested < MaxBothEvents /\ \E r \in BothFuelFeed : IngestFuel(r)

NextBoth == BothGpsEvent \/ BothFuelEvent

SpecBoth == Init /\ [][NextBoth]_vars

\* the z-score alerts of sliding window k
ZAlertsOfWindow(A, k) == {a \in DOMAIN A : a.vehicle_id = k[1] /\ a.timestamp = k[2]}

\* C34: a sliding window has at most one z-score alert, and has one if and
\* only if its speed or its carbon z-score is over 2.5; the alert's type is
\* speed_zscore when the speed z-score is over 2.5 and carbon_zscore
\* otherwise; its severity is critical when either z-score is over 3.75 and
\* high otherwise.
C34_OneZscoreAlertPerWindow ==
    \A T \in {Telemetry} :
    \A Z \in {ZStats(T, zLatest)}, A \in {detect_zscore_anomalies(T, zLatest)} :
    \A k \in DOMAIN Z : \A as \in {ZAlertsOfWindow(A, k)} :
    \A sz \in {ZGt(Z[k].speed_zscore_sq, <<5, 2>>)}, cz \in {ZGt(Z[k].carbon_zscore_sq, <<5, 2>>)} :
        /\ SumFn([a \in as |-> A[a]]) = (IF sz \/ cz THEN 1 ELSE 0)
        /\ \A a \in as :
              /\ a.anomaly_type = (IF sz THEN "speed_zscore" ELSE "carbon_zscore")
              /\ a.severity =
                    (IF \/ ZGt(Z[k].speed_zscore_sq, <<15, 4>>)
                        \/ ZGt(Z[k].carbon_zscore_sq, <<15, 4>>)
                     THEN "critical" ELSE "high")

\* C34, the cases: an alert on speed of severity high
C34_SpeedAlertHigh ==
    \E a \in DOMAIN ZscoreAlerts : a.anomaly_type = "speed_zscore" /\ a.severity = "high"

\* a critical alert
C34_CriticalAlert ==
    \E a \in DOMAIN ZscoreAlerts : a.severity = "critical"

\* an alert on carbon alone
C34_CarbonAlert ==
    \E a \in DOMAIN ZscoreAlerts : a.anomaly_type = "carbon_zscore"

\* an alert of a window with both z-scores over 2.5
C34_BothOver ==
    \E a \in DOMAIN ZscoreAlerts :
        ZGt(a.speed_zscore_sq, <<5, 2>>) /\ ZGt(a.carbon_zscore_sq, <<5, 2>>)

-----------------------------------------------------------------------------
(* C35: the carbon of a window and the carbon of its records, with the     *)
(* products taken as the interpreter takes them, in IEEE-754 binary64.     *)
(* A weight is a natural number of units of 2^-51 kg, written as three     *)
(* limbs <<low, middle, high>> in base 2^20: the two factors lie in [2, 4) *)
(* and have 53 significant bits, so each is a whole number of units, and   *)
(* so is every product with a whole number of litres.                      *)

Limb == 2^20

BigNorm(x) ==
    LET mid == x[2] + (x[1] \div Limb)
    IN  <<x[1] % Limb, mid % Limb, x[3] + (mid \div Limb)>>

BigAdd(x, y) == BigNorm(<<x[1] + y[1], x[2] + y[2], x[3] + y[3]>>)

\* k times x, for a small natural k
BigScale(x, k) == BigNorm(<<x[1] * k, x[2] * k, x[3] * k>>)

BigLe(x, y) ==
    \/ x[3] < y[3]
    \/ x[3] = y[3] /\ x[2] < y[2]
    \/ x[3] = y[3] /\ x[2] = y[2] /\ x[1] <= y[1]

RECURSIVE BigSumFn(_)
BigSumFn(f) ==
    IF DOMAIN f = {} THEN <<0, 0, 0>>
    ELSE LET e == CHOOSE e \in DOMAIN f : TRUE
         IN  BigAdd(f[e], BigSumFn([k \in DOMAIN f \ {e} |-> f[k]]))

RECURSIVE BitLength(_)
BitLength(n) == IF n = 0 THEN 0 ELSE 1 + BitLength(n \div 2)

\* the binary64 nearest to x, ties to the even significand: x keeps its 53
\* leading bits (the bits dropped all lie in the low limb)
Float64Round(x) ==
    LET s == 40 + BitLength(x[3]) - 53
    IN  IF s <= 0 THEN x
        ELSE LET r == x[1] % (2^s)
                 odd == (x[1] \div (2^s)) % 2 = 1
                 up == r > 2^(s - 1) \/ (r = 2^(s - 1) /\ odd)
             IN  BigNorm(<<x[1] - r + (IF up THEN 2^s ELSE 0), x[2], x[3]>>)

\* float("2.68") = 6034823500676465 / 2^51, float("2.31") = 5201657569612923 / 2^51
diesel_emission_factor_binary64 == <<671089, 671088, 5488>>
gasoline_emission_factor_binary64 == <<922747, 922746, 4730>>
default_emission_factor_binary64 == <<671089, 671088, 5488>>

\* every record charged at the default factor
CarbonOfBinary64Default(t) ==
    Float64Round(BigScale(default_emission_factor_binary64, t.fuel_liters))

\* features/carbon.py: fuel_liters * factor, a product of two floats
CarbonOfBinary64(t) ==
    IF t.fuel_type = "diesel"
    THEN Float64Round(BigScale(diesel_emission_factor_binary64, t.fuel_liters))
    ELSE IF t.fuel_type = "gasoline"
    THEN Float64Round(BigScale(gasoline_emission_factor_binary64, t.fuel_liters))
    ELSE Float64Round(BigScale(default_emission_factor_binary64, t.fuel_liters))

\* streaming/windows.py: pw.this.total_fuel * config.default_emission_factor,
\* total_fuel a sum of whole numbers of litres (exact in binary64)
WindowCarbonBinary64(w) ==
    Float64Round(BigScale(default_emission_factor_binary64, w.total_fuel))

\* A run with litres whose products round differently: 2.0 * 2.68 + 3.0 * 2.68
\* is one unit in the last place above 5.0 * 2.68.

MaxCarbonEvents == 5    \* rows ingested in a run of SpecCarbon

CarbonGpsFeed ==
    {GPSSchema("V-101", OnRouteLat, RouteLon, 60, <<4, 50>>),
     GPSSchema("V-101", OnRouteLat, RouteLon, 60, <<5, 0>>)}

CarbonFuelFeed ==
    {FuelSchema("V-101", 2, 25, "diesel", <<5, 0>>),
     FuelSchema("V-101", 3, 25, "diesel", <<5, 0>>),
     FuelSchema("V-101", 3, 25, "gasoline", <<5, 0>>),
     FuelSchema("V-101", 0, 25, "gasoline", <<5, 0>>)}

CarbonGpsEvent == Ingested < MaxCarbonEvents /\ \E r \in CarbonGpsFeed : IngestGps(r)
CarbonFuelEvent == Ingested < MaxCarbonEvents /\ \E r \in CarbonFuelFeed : IngestFuel(r)

NextCarbon == CarbonGpsEvent \/ CarbonFuelEvent

SpecCarbon == Init /\ [][NextCarbon]_vars

\* the records of window k of the telemetry table T
RecordsOfWindow(T, k) ==
    {r \in DOMAIN T : r.vehicle_id = k[1] /\ TumblingStart(r.timestamp) = k[2]}

\* the sum of the carbon_kg of the records of window k, in binary64 units
RecordCarbonSum(T, k) ==
    BigSumFn([r \in RecordsOfWindow(T, k) |-> BigScale(CarbonOfBinary64(r), T[r])])

GasolineWithFuel(T, k) ==
    \E r \in RecordsOfWindow(T, k) : r.fuel_type = "gasoline" /\ r.fuel_liters > 0

\* 2^-40 of the window's carbon, rounded up: a relative difference under 1e-12
RoundingSlack(w) == <<w[3] + 1, 0, 0>>

C35_InExactArithmetic ==
    \A T \in {Telemetry} : \A W \in {compute_rolling_windows(T)} :
        \A k \in DOMAIN W :
            \A s \in {RSumFn([r \in RecordsOfWindow(T, k) |-> RMul(R(T[r]), r.carbon_kg)])} :
                /\ RLe(s, W[k].carbon_kg)
                /\ (s = W[k].carbon_kg) <=> ~GasolineWithFuel(T, k)

\* a window of diesel records only whose carbon_kg is below the sum
C35_DieselWindowBelowTheSum ==
    \E T \in {Telemetry} : \E W \in {compute_rolling_windows(T)} :
        \E k \in DOMAIN W :
            /\ \A r \in RecordsOfWindow(T, k) : r.fuel_type = "diesel"
            /\ ~BigLe(RecordCarbonSum(T, k), WindowCarbonBinary64(W[k]))

C35_GasolineWithoutFuel ==
    \E T \in {Telemetry} : \E W \in {compute_rolling_windows(T)} :
        \E k \in DOMAIN W :
            /\ \E r \in RecordsOfWindow(T, k) : r.fuel_type = "gasoline"
            /\ \E r \in RecordsOfWindow(T, k) : r.fuel_liters > 0
            /\ ~GasolineWithFuel(T, k)

-----------------------------------------------------------------------------
(* api/server.py: the crisis simulation and the reads it overlays.  The    *)
(* handlers are coroutines without an await, so each runs as one step.     *)
(* cs is _crisis_state, time is what time.time() returns to the handler.   *)

_is_crisis_vehicle(cs, vehicle_id) == cs.enabled /\ cs.vehicle_id = vehicle_id

_crisis_intensity(cs, time) ==
    IF ~cs.enabled \/ cs.started_at = <<>> THEN R(0)
    ELSE RMin(R(1), RDiv(RMax(R(0), R(time - cs.started_at[1])), R(120)))

\* GET /vehicle-state: the rows of vehicle_states VS, the crisis vehicle's
\* overlaid, sorted by risk_score from the highest; sorted() is stable and
\* the order of the table's rows is the engine's, so rows of equal score may
\* come in any order.  The set of the lists the handler may return.
get_vehicle_states(VS, cs, time) ==
    LET states == [k \in DOMAIN VS |->
            LET row == VS[k]
                risk_score == Round1(row.risk_score)
            IN  IF _is_crisis_vehicle(cs, row.vehicle_id)
                THEN [vehicle_id |-> row.vehicle_id,
                      current_state |-> "CRITICAL_RISK",
                      previous_state |-> row.previous_state,
                      transition_reason |-> <<"Simulated crisis mode active: emission + alerts + route deviation escalation">>,
                      risk_level |-> "critical",
                      risk_score |-> RMin(R(100), Round1(RAdd(RMax(risk_score, R(85)),
                                              RMul(_crisis_intensity(cs, time), R(12)))))]
                ELSE [vehicle_id |-> row.vehicle_id,
                      current_state |-> row.current_state,
                      previous_state |-> row.previous_state,
                      transition_reason |-> row.transition_reason,
                      risk_level |-> row.risk_level,
                      risk_score |-> risk_score]]
    IN  {[i \in DOMAIN ord |-> states[ord[i]]] :
            ord \in {o \in Perms(DOMAIN VS) :
                        \A i, j \in DOMAIN o :
                            i < j => RGe(states[o[i]].risk_score, states[o[j]].risk_score)}}

\* GET /fleet-report/latest over the table latest_report LR
get_latest_fleet_report(LR, cs) ==
    IF DOMAIN LR = {} THEN [status |-> 404, detail |-> "No reports generated yet"]
    ELSE LET row == CHOOSE r \in DOMAIN LR : TRUE
         IN  [total_carbon |-> Round2(row.total_carbon),
              active_vehicles |-> row.active_vehicles,
              total_alerts |-> IF cs.enabled THEN Max({row.total_alerts, 8})
                               ELSE row.total_alerts,
              avg_risk |-> Round1(row.avg_risk),
              avg_sustainability |-> Round1(row.avg_sustainability),
              fleet_health |-> IF cs.enabled THEN "degraded" ELSE row.fleet_health,
              executive_summary |->
                  IF cs.enabled
                  THEN row.executive_summary
                       \o <<" Crisis simulation active for vehicle", cs.vehicle_id,
                            "; executive posture shifted to incident monitoring.">>
                  ELSE row.executive_summary]

\* the vehicle ids of the requests and the clock's readings, in seconds
CrisisVehicles == {"V-101", "V-102"}
CrisisTimes == {0, 60, 180}

\* POST /stop-crisis that clears the vehicle only
stop_crisis_vehicle_only ==
    /\ _crisis_state' = [_crisis_state EXCEPT !.vehicle_id = NULL]
    /\ call' = [fn |-> "stop_crisis",
                response |-> [status |-> "disabled", vehicle_id |-> _crisis_state.vehicle_id]]
    /\ UNCHANGED <<gps, fuel, shipments, shipLatest, zLatest, lastRunState, stateChanges>>

\* POST /simulate-crisis that keeps the vehicle of a crisis under way
simulate_crisis_first_wins ==
    \E vehicle_id \in CrisisVehicles, time \in CrisisTimes :
        /\ _crisis_state' = IF _crisis_state.enabled THEN _crisis_state
                            ELSE [enabled |-> TRUE, vehicle_id |-> vehicle_id,
                                  started_at |-> <<time>>]
        /\ call' = [fn |-> "simulate_crisis",
                    response |-> [status |-> "enabled", vehicle_id |-> vehicle_id]]
        /\ UNCHANGED <<gps, fuel, shipments, shipLatest, zLatest, lastRunState, stateChanges>>

\* POST /simulate-crisis with the body {vehicle_id}
simulate_crisis ==
    \E vehicle_id \in CrisisVehicles, time \in CrisisTimes :
        /\ _crisis_state' = [enabled |-> TRUE, vehicle_id |-> vehicle_id,
                             started_at |-> <<time>>]
        /\ call' = [fn |-> "simulate_crisis",
                    response |-> [status |-> "enabled", vehicle_id |-> vehicle_id]]
        /\ UNCHANGED <<gps, fuel, shipments, shipLatest, zLatest, lastRunState, stateChanges>>

\* POST /stop-crisis
stop_crisis ==
    /\ _crisis_state' = [enabled |-> FALSE, vehicle_id |-> NULL, started_at |-> <<>>]
    /\ call' = [fn |-> "stop_crisis",
                response |-> [status |-> "disabled", vehicle_id |-> _crisis_state.vehicle_id]]
    /\ UNCHANGED <<gps, fuel, shipments, shipLatest, zLatest, lastRunState, stateChanges>>

GetVehicleStates ==
    \E time \in CrisisTimes : \E response \in get_vehicle_states(VehicleStates, _crisis_state, time) :
        /\ call' = [fn |-> "get_vehicle_states", time |-> time, response |-> response]
        /\ UNCHANGED <<gps, fuel, shipments, shipLatest, zLatest, lastRunState, stateChanges, _crisis_state>>

GetLatestFleetReport ==
    /\ call' = [fn |-> "get_latest_fleet_report",
                response |-> get_latest_fleet_report(LatestReport, _crisis_state)]
    /\ UNCHANGED <<gps, fuel, shipments, shipLatest, zLatest, lastRunState, stateChanges, _crisis_state>>

MaxCrisisEvents == 4    \* rows ingested in a run of SpecCrisis

CrisisGpsFeed ==
    {GPSSchema("V-101", OnRouteLat, RouteLon, 60, <<4, 50>>),
     GPSSchema("V-102", 423601, -710589, 130, <<4, 50>>)}

CrisisFuelFeed ==
    {FuelSchema("V-101", 3, 25, "diesel", <<5, 0>>),
     FuelSchema("V-102", 10, 35, "diesel", <<5, 0>>)}

CrisisGpsEvent == Ingested < MaxCrisisEvents /\ \E r \in CrisisGpsFeed : IngestGps(r)
CrisisFuelEvent == Ingested < MaxCrisisEvents /\ \E r \in CrisisFuelFeed : IngestFuel(r)

NextCrisis ==
    \/ CrisisGpsEvent
    \/ CrisisFuelEvent
    \/ simulate_crisis
    \/ stop_crisis
    \/ GetVehicleStates
    \/ GetLatestFleetReport

SpecCrisis == Init /\ [][NextCrisis]_vars


\* the vehicles the overlay applies to
InCrisis == {v \in CrisisVehicles : _is_crisis_vehicle(_crisis_state, v)}

\* the row a read reports for the crisis vehicle
CrisisRowReported(r) ==
    /\ r.current_state = STATE_CRITICAL_RISK
    /\ r.risk_level = "critical"
    /\ RGe(r.risk_score, R(85)) /\ RLe(r.risk_score, R(100))

\* C36 as stated: at most one vehicle is in crisis mode, a simulate-crisis
\* call makes its vehicle the one in crisis, and while crisis mode is enabled
\* for V every read of /vehicle-state reports the rows of V as CRITICAL_RISK,
\* critical, with 85 <= risk_score <= 100, and every other row exactly as it
\* is in vehicle_states.
C36_CrisisOverlay ==
    /\ Cardinality(InCrisis) <= 1
    /\ call.fn = "simulate_crisis" => InCrisis = {call.response.vehicle_id}
    /\ _crisis_state.enabled =>
          \A VS \in {VehicleStates} : \A time \in CrisisTimes :
              \A response \in get_vehicle_states(VS, _crisis_state, time) :
                  \E ord \in Perms(DOMAIN VS) :
                      \A i \in DOMAIN ord :
                          /\ response[i].vehicle_id = VS[ord[i]].vehicle_id
                          /\ IF response[i].vehicle_id = _crisis_state.vehicle_id
                             THEN CrisisRowReported(response[i])
                             ELSE response[i] = VS[ord[i]]

\* C36 amended: the same, every other row being reported as it is in
\* vehicle_states with its risk_score rounded to one decimal place.
C36_CrisisOverlayRounded ==
    /\ Cardinality(InCrisis) <= 1
    /\ call.fn = "simulate_crisis" => InCrisis = {call.response.vehicle_id}
    /\ _crisis_state.enabled =>
          \A VS \in {VehicleStates} : \A time \in CrisisTimes :
              \A response \in get_vehicle_states(VS, _crisis_state, time) :
                  \E ord \in Perms(DOMAIN VS) :
                      \A i \in DOMAIN ord :
                          /\ response[i].vehicle_id = VS[ord[i]].vehicle_id
                          /\ IF response[i].vehicle_id = _crisis_state.vehicle_id
                             THEN CrisisRowReported(response[i])
                             ELSE response[i] = [VS[ord[i]] EXCEPT
                                                    !.risk_score = Round1(VS[ord[i]].risk_score)]

\* a read during a crisis of V-102 that reports a row of V-102 and a row of
\* V-101
C36_ReadDuringCrisis ==
    /\ _crisis_state.enabled /\ _crisis_state.vehicle_id = "V-102"
    /\ call.fn = "get_vehicle_states"
    /\ call.response \in get_vehicle_states(VehicleStates, _crisis_state, call.time)
    /\ \E i, j \in DOMAIN call.response :
          /\ call.response[i].vehicle_id = "V-102"
          /\ call.response[i].current_state = STATE_CRITICAL_RISK
          /\ call.response[j].vehicle_id = "V-101"

\* the row of the crisis vehicle was not CRITICAL_RISK in vehicle_states
C36_OverlaidRowWasCalm ==
    /\ _crisis_state.enabled
    /\ \E k \in DOMAIN VehicleStates :
          /\ VehicleStates[k].vehicle_id = _crisis_state.vehicle_id
          /\ VehicleStates[k].current_state # STATE_CRITICAL_RISK
          /\ RLt(VehicleStates[k].risk_score, R(85))

\* a row of another vehicle whose risk_score has more than one decimal
C36_OtherRowRounded ==
    /\ _crisis_state.enabled
    /\ \E k \in DOMAIN VehicleStates :
          /\ VehicleStates[k].vehicle_id # _crisis_state.vehicle_id
          /\ Round1(VehicleStates[k].risk_score) # VehicleStates[k].risk_score

\* the crisis vehicle has no row in vehicle_states
C36_CrisisVehicleWithoutRow ==
    /\ _crisis_state.enabled
    /\ DOMAIN VehicleStates # {}
    /\ \A k \in DOMAIN VehicleStates : VehicleStates[k].vehicle_id # _crisis_state.vehicle_id


\* the registered tables the reads are taken from, for the sources G, F, S,
\* the telemetry table T and the state ZL of the latest reducers
PipelineTables(G, F, S, T, ZL) ==
    <<G, F, S, T, VehicleStatesOf(T, ZL), FleetReportsOf(T, ZL)[1]>>

\* C37: simulate-crisis and stop-crisis leave every variable of the pipeline
\* and every table as it was (they write _crisis_state only), and after a
\* stop-crisis the crisis state is the one the server started with, so that
\* the reads of /vehicle-state and /fleet-report/latest return what they
\* return without a crisis.
C37_ReadTimeOverlay ==
    /\ [](call.fn = "stop_crisis" =>
            /\ _crisis_state = NoCrisis
            /\ \A time \in CrisisTimes :
                  get_vehicle_states(VehicleStates, _crisis_state, time)
                      = get_vehicle_states(VehicleStates, NoCrisis, time)
            /\ get_latest_fleet_report(LatestReport, _crisis_state)
                  = get_latest_fleet_report(LatestReport, NoCrisis))
    /\ [][(simulate_crisis \/ stop_crisis) =>
            /\ UNCHANGED <<gps, fuel, shipments, shipLatest, zLatest, lastRunState, stateChanges>>
            /\ \E T1 \in {TelemetryOf(gps, fuel, shipLatest)},
                  T2 \in {TelemetryOf(gps', fuel', shipLatest')} :
                   PipelineTables(gps', fuel', shipments', T2, zLatest')
                       = PipelineTables(gps, fuel, shipments, T1, zLatest)]_vars

\* a crisis of V-101 was stopped while vehicle_states held a calm row of
\* V-101 and the report counted fewer than 8 alerts: the reads during the
\* crisis differed from the reads after it
C37_CrisisStopped ==
    /\ call.fn = "stop_crisis" /\ call.response.vehicle_id = "V-101"
    /\ \E k \in DOMAIN VehicleStates :
          /\ VehicleStates[k].vehicle_id = "V-101"
          /\ VehicleStates[k].current_state # STATE_CRITICAL_RISK
    /\ \E r \in DOMAIN LatestReport : r.total_alerts < 8 /\ r.fleet_health = "healthy"
    /\ \A cs \in {[enabled |-> TRUE, vehicle_id |-> "V-101", started_at |-> <<0>>]} :
          /\ get_vehicle_states(VehicleStates, cs, 60)
                # get_vehicle_states(VehicleStates, NoCrisis, 60)
          /\ get_latest_fleet_report(LatestReport, cs)
                # get_latest_fleet_report(LatestReport, NoCrisis)

\* a read of the report during a crisis
C37_ReportDuringCrisis ==
    /\ call.fn = "get_latest_fleet_report"
    /\ _crisis_state.enabled
    /\ DOMAIN LatestReport # {}
    /\ call.response = get_latest_fleet_report(LatestReport, _crisis_state)
    /\ call.response.fleet_health = "degraded" /\ call.response.total_alerts = 8

=============================================================================
